---- MODULE Spec2Model ----
(***************************************************************************)
(* Ledger hardware-wallet transport of grin-wallet (libwallet/src/hw):     *)
(*   - APDUCommand::serialize / APDUAnswer::from_answer   (apdu_types.rs)  *)
(*   - TransportNativeHID::write_apdu / read_apdu / exchange               *)
(*                                              (transportnativehid.rs)   *)
(*   - LedgerDevice::send_chunks                        (ledgerdevice.rs)  *)
(* Bytes are naturals 0..255, byte vectors are sequences (index i of the   *)
(* Rust code is index i+1 here).                                           *)
(***************************************************************************)
EXTENDS Integers, Sequences, FiniteSets, TLC

\* ------------------------------------------------------------------ bounds
\* longest command payload the HID model enumerates
MaxDataLen == 125
\* exchange() calls each thread may issue
MaxExchanges == 2
\* number of 250-byte pieces of the longest send_chunks message
MaxPieces == 3
\* send_chunks calls in one behaviour
MaxCalls == 2
\* longest raw answer handed to from_answer on its own
MaxAnswerLen == 8
MaxDevices == 2
MaxCtx == 3
MaxHandles == 2
MaxItems == 2
MaxCut == 2
MaxPairs == 2
MaxTicks == 2

\* --------------------------------------------------------- program constants
LEDGER_VID == 11415
LEDGER_USAGE_PAGE == 65440
LEDGER_CHANNEL == 257
LEDGER_PACKET_SIZE == 64
USER_MESSAGE_CHUNK_SIZE == 250
ChunkInit == 0
ChunkAdd == 1
ChunkLast == 2
SW_OK == 36864
MAX_CHUNKS == 255

\* ------------------------------------------------------------------ helpers
Min(a, b) == IF a < b THEN a ELSE b
Max(a, b) == IF a > b THEN a ELSE b

Zeros(n) == [i \in 1..n |-> 0]

\* mutant: a piece is counted for the remainder even when there is none
ChunksLen_Plus1(s, n) == (Len(s) \div n) + 1


\* chunks.len() as the Chunks iterator computes it: the number of pieces
ChunksLen(s, n) ==
    IF Len(s) = 0 THEN 0
    ELSE (Len(s) \div n) + (IF Len(s) % n = 0 THEN 0 ELSE 1)

\* slice.chunks(n): the slice cut into consecutive pieces of n elements, the
\* last one holding the remainder (1..n elements); no piece for an empty slice
Chunks(s, n) ==
    [k \in 1..ChunksLen(s, n) |-> SubSeq(s, (k - 1) * n + 1, Min(k * n, Len(s)))]

\* ------------------------------------------------------------- apdu_types.rs
\* mutant: p2 is written before p1
serialize_P2First(c) == <<c.cla, c.ins, c.p2, c.p1, Len(c.data) % 256>> \o c.data

\* mutant: a payload length above 255 is written as 255
serialize_Saturate(c) ==
    <<c.cla, c.ins, c.p1, c.p2, Min(Len(c.data), 255)>> \o c.data

\* APDUCommand::serialize: [cla, ins, p1, p2, data.len() as u8] ++ data
serialize(c) == <<c.cla, c.ins, c.p1, c.p2, Len(c.data) % 256>> \o c.data

\* APDUAnswer::from_answer: last two bytes big-endian are the retcode, the
\* bytes before them the data (the caller guarantees at least 2 bytes)
from_answer(answer) ==
    [data    |-> SubSeq(answer, 1, Len(answer) - 2),
     retcode |-> answer[Len(answer) - 1] * 256 + answer[Len(answer)]]

\* APDUAnswer::from_answer as callers see it: the index answer.len() - 2 of
\* lines 57-58 panics on fewer than 2 bytes, otherwise the answer is built
FromAnswerOutcome(answer) ==
    IF Len(answer) < 2
    THEN [tag |-> "Panic", msg |-> "panicked",
          answer |-> [data |-> <<>>, retcode |-> 0]]
    ELSE [tag |-> "Value", msg |-> "", answer |-> from_answer(answer)]

\* a Result<_, _> value: Ok carries the answer, an error carries its message
Res(tag, msg, data, retcode) ==
    [tag |-> tag, msg |-> msg, data |-> data, retcode |-> retcode]
NoRes == Res("None", "", <<>>, 0)
Ok(a) == Res("Ok", "", a.data, a.retcode)
Comm(msg) == Res("Comm", msg, <<>>, 0)
HidErr == Res("Hid", "", <<>>, 0)

\* an APDUAnswer
Answer(data, retcode) == [data |-> data, retcode |-> retcode]
NoAnswer == Answer(<<>>, 0)

\* ---------------------------------------------------------- ledger_error.rs
\* Result<APDUAnswer, LedgerAppError> values of send_chunks
ScRes(tag, answer, code, desc, err) ==
    [tag |-> tag, answer |-> answer, code |-> code, desc |-> desc, err |-> err]
ScNone == ScRes("None", NoAnswer, 0, "", "")
ScOk(a) == ScRes("Ok", a, 0, "", "")
InvalidEmptyMessage == ScRes("InvalidEmptyMessage", NoAnswer, 0, "", "")
InvalidMessageSize == ScRes("InvalidMessageSize", NoAnswer, 0, "", "")
InvalidChunkPayloadType == ScRes("InvalidChunkPayloadType", NoAnswer, 0, "", "")
AppSpecific(code, desc) == ScRes("AppSpecific", NoAnswer, code, desc, "")
\* mutant: a transport failure reported as an application error
FromTransportError_App(e) == AppSpecific(0, e)

\* LedgerAppError::TransportError(#[from] TransportError): what `?` makes of
\* a TransportError
FromTransportError(e) == ScRes("TransportError", NoAnswer, 0, "", e)
TransportErrors == {"APDUExchangeError", "ResponseTooShort", "UnknownError"}

\* ------------------------------------------------------ model inputs (HID)
Threads == {1, 2}
\* payload byte i (0-based) of the test commands
Pat(seed, i) == (seed + 3 * i) % 256
MkData(seed, n) == [i \in 1..n |-> Pat(seed, i - 1)]
MkCommand(p1, seed, n) ==
    [cla |-> 224, ins |-> 11, p1 |-> p1, p2 |-> 0, data |-> MkData(seed, n)]
\* commands of the single-caller framing runs
HidCommands == {MkCommand(p1, 1, n) : p1 \in {ChunkInit, ChunkLast}, n \in 0..MaxDataLen}
\* commands of the concurrent runs: one-packet and two-packet commands
XCommands == {MkCommand(ChunkInit, 1, 0), MkCommand(ChunkLast, 7, 60)}
\* what device.write can report: whole packet, fewer bytes, or an error
WriteResults == {"ok", "short", "err"}
\* what device.read_timeout can report: an error, or a byte count (0 on timeout)
ReadSizes == {0, 4, 5, 6, 7, LEDGER_PACKET_SIZE}

VARIABLES
    pc,                \* per thread: "off", "idle", "lock", "write", "read"
    xn,                \* per thread: exchange() calls made so far
    command,           \* per thread: the APDUCommand it exchanges
    in_data,           \* write_apdu: length prefix ++ serialized command
    wbuffer,           \* write_apdu: the packet buffer
    wseq,              \* write_apdu: sequence_idx of the next chunk
    rbuffer,           \* read_apdu: the packet buffer
    sequence_idx,      \* read_apdu: packets accepted so far
    expected_apdu_len, \* read_apdu: length declared by packet 0
    apdu_answer,       \* exchange: the accumulated raw answer
    result,            \* per thread: what its last exchange() returned
    device_mutex,      \* holder of TransportNativeHID::device_mutex, 0 if free
    wire,              \* device: packets received for the current command
    dev_out,           \* device: packets it answers with, in order
    rd_log,            \* per thread: <<k, res>> of each read of its exchange
    rcv,               \* per thread: the bytes each of these reads stored
    bus,               \* <<thread, exchange no., "w"/"r", outcome>> per packet
                       \* transfer since the guard was last acquired
    dev_mode,          \* device: "loopback", or "answer" with packets of its own
    waitq,             \* the threads waiting for device_mutex, in the order
                       \* in which they started to wait
    overtook           \* the last grant of device_mutex passed over a thread
                       \* that had started to wait earlier

VARIABLES
    sc_pc,          \* send_chunks: "off", "idle", "init", "pieces", "last",
                    \*              "done", "failed"
    calls,          \* send_chunks calls made so far
    start_command,  \* send_chunks argument
    message,        \* send_chunks argument
    packet_idx,     \* send_chunks: index of the next piece
    response,       \* send_chunks: the last answer received
    sc_result,      \* what the last send_chunks call returned
    exch_log,       \* the exchanges of the current call: command and outcome
    msg_pool        \* the messages callers send: "short", or "limit" for
                    \* messages at the limit of 255 pieces

VARIABLES
    fn,             \* the function applied last: "none", "serialize", "from_answer"
    fn_arg,         \* its argument
    fn_ret          \* what it returned

scvars == <<sc_pc, calls, start_command, message, packet_idx, response,
            sc_result, exch_log, msg_pool>>

fnvars == <<fn, fn_arg, fn_ret>>

VARIABLES
    op,             \* the LedgerDevice operation called last, "none" at first
    op_out,         \* what the exchange of that operation returned
    op_result,      \* what the operation returned
    mapped          \* retcodes it passed to map_apdu_error_description

opsvars == <<op, op_out, op_result, mapped>>

VARIABLES
    reg_pc,         \* per thread: where its registry call stands
    reg_op,         \* per thread: the registry function it called last
    wrapper_lock,   \* the thread that holds the lock of HIDAPIWRAPPER, or 0
    poisoned,       \* a thread panicked with that lock held
    weak_api,       \* the context HidApiWrapper._api names, 0: Weak::new()
    n_ctx,          \* how many contexts HidApi::new() has made
    strong,         \* per context: its strong count, 0: destroyed
    local_api,      \* per thread: the context its api_mutex references, or 0
    device_path,    \* per thread: what the discovery returned
    handles,        \* the Device Handles there are
    closed,         \* the handles whose owner called close()
    reg_result,     \* per thread: what its last registry call returned
    devices         \* the enumeration of the HID devices

regvars == <<reg_pc, reg_op, wrapper_lock, poisoned, weak_api, n_ctx, strong,
             local_api, device_path, handles, closed, reg_result, devices>>

VARIABLES
    up_desc,        \* the report descriptor get_usage_page parses
    up_i,           \* the index i of its loop
    up_prev,        \* i at the start of the last iteration, -1 before the first
    up_pc,          \* "off", "loop" or "done"
    up_result,      \* what the parse returned
    up_read         \* the highest index of data it read or tried to read

upvars == <<up_desc, up_i, up_prev, up_pc, up_result, up_read>>

VARIABLES
    api_lock,       \* per context: the thread that holds its Mutex, or 0
    dev_guard,      \* per handle: the thread that holds its device_mutex, or 0
    xh              \* per thread: the handle it calls exchange() on, or 0

lockvars == <<api_lock, dev_guard, xh>>

VARIABLES
    unknown,        \* Global.unknown: the pairs of the map, one per key
    features,       \* Input.features as the macro reads it: "None" or a value
    ps_pc,          \* "idle", "insert" (in insert_pair) or "decode"
    ps_map,         \* the map insert_pair is called on: "Global" or "Input"
    ps_arg,         \* the pair handed to insert_pair
    ps_stream,      \* the bytes the reader of decode holds
    ps_pos,         \* the position of that reader, from 1
    ps_result       \* what the last call returned

psgtvars == <<unknown, features, ps_pc, ps_map, ps_arg, ps_stream, ps_pos,
              ps_result>>

VARIABLES
    polled,         \* the task the scheduler thread is polling, or "none"
    ticks           \* how often the other task of that thread has been polled

asyncvars == <<polled, ticks>>

hidvars == <<pc, xn, command, in_data, wbuffer, wseq, rbuffer, sequence_idx,
             expected_apdu_len, apdu_answer, result, device_mutex, wire,
             dev_out, rd_log, rcv, bus, dev_mode, waitq, overtook>>

\* ---------------------------------------------------- transportnativehid.rs
\* mutant: the length prefix written low byte first
InData_LittleEndian(apdu_command) ==
    <<Len(apdu_command) % 256, (Len(apdu_command) \div 256) % 256>>
        \o apdu_command

\* write_apdu, lines 105-110: 2-byte big-endian length, then the command
InData(apdu_command) ==
    <<(Len(apdu_command) \div 256) % 256, Len(apdu_command) % 256>>
        \o apdu_command

\* write_apdu, lines 113-116: the zeroed packet buffer with channel and tag
InitBuffer(channel) ==
    [i \in 1..LEDGER_PACKET_SIZE |->
        CASE i = 1 -> (channel \div 256) % 256
          [] i = 2 -> channel % 256
          [] i = 3 -> 5
          [] OTHER -> 0]

\* write_apdu, lines 122-124: sequence number and chunk are stored into the
\* buffer that the previous iteration left behind
FillBuffer(buffer, seq, chunk) ==
    [i \in 1..LEDGER_PACKET_SIZE |->
        CASE i = 4 -> (seq \div 256) % 256
          [] i = 5 -> seq % 256
          [] i >= 6 /\ i <= 5 + Len(chunk) -> chunk[i - 5]
          [] OTHER -> buffer[i]]

\* write_apdu, lines 118-120: in_data.chunks(LEDGER_PACKET_SIZE - 5)
WriteChunks(data) == Chunks(data, LEDGER_PACKET_SIZE - 5)

\* mutant: the guard is kept when the exchange returns
Return_Held(t, res) ==
    /\ pc' = [pc EXCEPT ![t] = "idle"]
    /\ result' = [result EXCEPT ![t] = res]
    /\ device_mutex' = device_mutex
    /\ in_data' = [in_data EXCEPT ![t] = <<>>]
    /\ wbuffer' = [wbuffer EXCEPT ![t] = <<>>]
    /\ wseq' = [wseq EXCEPT ![t] = 0]
    /\ rbuffer' = [rbuffer EXCEPT ![t] = <<>>]
    /\ sequence_idx' = [sequence_idx EXCEPT ![t] = 0]
    /\ expected_apdu_len' = [expected_apdu_len EXCEPT ![t] = 0]


\* the thread returns from exchange(): locals dropped, guard released
Return(t, res) ==
    /\ pc' = [pc EXCEPT ![t] = "idle"]
    /\ result' = [result EXCEPT ![t] = res]
    /\ device_mutex' = IF device_mutex = t THEN 0 ELSE device_mutex
    /\ in_data' = [in_data EXCEPT ![t] = <<>>]
    /\ wbuffer' = [wbuffer EXCEPT ![t] = <<>>]
    /\ wseq' = [wseq EXCEPT ![t] = 0]
    /\ rbuffer' = [rbuffer EXCEPT ![t] = <<>>]
    /\ sequence_idx' = [sequence_idx EXCEPT ![t] = 0]
    /\ expected_apdu_len' = [expected_apdu_len EXCEPT ![t] = 0]

\* a caller invokes exchange(command)
Call(t) ==
    /\ pc[t] = "idle"
    /\ xn[t] < MaxExchanges
    /\ pc' = [pc EXCEPT ![t] = "lock"]
    /\ xn' = [xn EXCEPT ![t] = @ + 1]
    /\ result' = [result EXCEPT ![t] = NoRes]
    /\ apdu_answer' = [apdu_answer EXCEPT ![t] = <<>>]
    /\ rd_log' = [rd_log EXCEPT ![t] = <<>>]
    /\ rcv' = [rcv EXCEPT ![t] = <<>>]
    /\ waitq' = Append(waitq, t)
    /\ UNCHANGED overtook
    /\ UNCHANGED <<command, in_data, wbuffer, wseq, rbuffer, sequence_idx,
                   expected_apdu_len, device_mutex, wire, dev_out, bus>>
    /\ UNCHANGED <<dev_mode, scvars, fnvars, opsvars, regvars, upvars, lockvars, psgtvars, asyncvars>>

\* mutant: a lock that is granted while another thread holds it
CanLock_NoWait(t) == TRUE

\* Mutex::lock succeeds only on a free mutex
CanLock(t) == device_mutex = 0

\* exchange, line 205, then write_apdu up to its loop (lines 105-116)
Lock(t) ==
    /\ pc[t] = "lock"
    /\ CanLock(t)
    /\ device_mutex' = t
    /\ pc' = [pc EXCEPT ![t] = "write"]
    /\ in_data' = [in_data EXCEPT ![t] = InData(serialize(command[t]))]
    /\ wbuffer' = [wbuffer EXCEPT ![t] = InitBuffer(LEDGER_CHANNEL)]
    /\ wseq' = [wseq EXCEPT ![t] = 0]
    /\ bus' = <<>>
    /\ waitq' = SelectSeq(waitq, LAMBDA u : u # t)
    /\ overtook' = (Head(waitq) # t)
    /\ UNCHANGED <<xn, command, rbuffer, sequence_idx, expected_apdu_len,
                   apdu_answer, result, wire, dev_out, rd_log, rcv>>
    /\ UNCHANGED <<dev_mode, scvars, fnvars, opsvars, regvars, upvars, lockvars, psgtvars, asyncvars>>

\* the device answers a completely written command with these packets; the
\* device modelled is a loopback that sends the packets of the command back
DeviceAnswer(packets) == packets

\* a device answering with packets of its own: the raw answer behind its
\* 2-byte big-endian length, cut into 59-byte pieces, each behind the header
\* channel | tag | sequence number and padded with zeros to the packet size
DevFrame(raw) ==
    LET pieces == Chunks(<<(Len(raw) \div 256) % 256, Len(raw) % 256>> \o raw,
                         LEDGER_PACKET_SIZE - 5)
    IN [k \in 1..Len(pieces) |->
           FillBuffer(InitBuffer(LEDGER_CHANNEL), k - 1, pieces[k])]

\* raw answer byte i (0-based)
RawPat(seed, i) == (seed + 11 * i) % 256
MkRaw(seed, n) == [i \in 1..n |-> RawPat(seed, i - 1)]
\* raw answers of the answering device: too short to hold a status word, a
\* bare status word, one and several packets long
DevAnswerLens == {0, 1, 2, 3, 57, 58, 130}
DevAnswers == {MkRaw(144, n) : n \in DevAnswerLens}

\* raw answers that are a bare status word: 0x9000 and 0x6985
StatusAnswers == {<<144, 0>>, <<105, 133>>}

\* the channel and tag bytes of a packet: those this library writes, and
\* others (`TODO: Check why windows returns a different channel/tag`)
Headers == {<<1, 1, 5>>, <<0, 0, 5>>, <<1, 1, 0>>}
WithHeaders(packets, hs) ==
    [k \in 1..Len(packets) |->
        [i \in 1..LEDGER_PACKET_SIZE |->
            IF i <= 3 THEN hs[k][i] ELSE packets[k][i]]]
\* raw answers of that device: one and two packets long
HeaderAnswers == {MkRaw(144, 2), MkRaw(144, 58)}

\* the packets the device may answer a completely written command with
\* (in "answer" mode the device sends all packets of a raw answer, or stops
\* after any number of them, the first included)
DeviceAnswers(packets) ==
    IF dev_mode = "loopback" THEN {DeviceAnswer(packets)}
    ELSE IF dev_mode = "status" THEN {DevFrame(raw) : raw \in StatusAnswers}
    ELSE IF dev_mode = "header"
    THEN UNION {{WithHeaders(DevFrame(raw), hs) :
                    hs \in [1..Len(DevFrame(raw)) -> Headers]} :
                        raw \in HeaderAnswers}
    ELSE UNION {{SubSeq(DevFrame(raw), 1, j) : j \in 0..Len(DevFrame(raw))} :
                    raw \in DevAnswers}

\* mutant: a failed device write reported like a short one
WriteFailure_Comm(wr) == Comm("USB write error. Could not send whole message")

\* write_apdu, lines 128-139: what a write that did not succeed returns
WriteFailure(wr) ==
    IF wr = "short"
    THEN Comm("USB write error. Could not send whole message")
    ELSE HidErr

\* write_apdu, one iteration of the loop (lines 118-140), and on the last
\* chunk the return into exchange and the start of read_apdu (lines 142,
\* 207-210, 147-149)
WritePacket(t) ==
    /\ pc[t] = "write"
    /\ LET chunks == WriteChunks(in_data[t])
           buffer == FillBuffer(wbuffer[t], wseq[t], chunks[wseq[t] + 1])
           last   == wseq[t] + 1 = Len(chunks)
           \* a packet with sequence number 0 starts a new command
           got    == IF wseq[t] = 0 THEN <<buffer>> ELSE Append(wire, buffer)
       IN \E wr \in WriteResults :
            /\ bus' = Append(bus, <<t, xn[t], "w", wr>>)
            /\ CASE wr = "ok" ->
                    /\ wire' = got
                    /\ IF last THEN dev_out' \in DeviceAnswers(got)
                               ELSE dev_out' = <<>>
                    /\ wbuffer' = [wbuffer EXCEPT ![t] = IF last THEN <<>> ELSE buffer]
                    /\ wseq' = [wseq EXCEPT ![t] = IF last THEN 0 ELSE @ + 1]
                    /\ in_data' = [in_data EXCEPT ![t] = IF last THEN <<>> ELSE @]
                    /\ pc' = [pc EXCEPT ![t] = IF last THEN "read" ELSE "write"]
                    /\ rbuffer' = [rbuffer EXCEPT ![t] =
                                      IF last THEN Zeros(LEDGER_PACKET_SIZE) ELSE @]
                    /\ UNCHANGED <<sequence_idx, expected_apdu_len, result,
                                   device_mutex>>
                 [] OTHER ->
                    /\ Return(t, WriteFailure(wr))
                    /\ UNCHANGED <<wire, dev_out>>
    /\ UNCHANGED <<xn, command, apdu_answer, rd_log, rcv, waitq, overtook>>
    /\ UNCHANGED <<dev_mode, scvars, fnvars, opsvars, regvars, upvars, lockvars, psgtvars, asyncvars>>

\* mutant: a read that timed out is not taken for a short read
ShortRead_NoTimeout(idx, res) == res # 0 /\ ((idx = 0 /\ res < 7) \/ res < 5)


\* mutant: the first packet is held to the 5 bytes of a later one
ShortRead_Five(idx, res) == res < 5

\* read_apdu, line 156: the read is too short to hold the header
ShortRead(idx, res) == (idx = 0 /\ res < 7) \/ res < 5

\* mutant: the checks of lines 169-174 made, not commented out
HeaderAccepted_Checked(rcv_channel, rcv_tag) ==
    rcv_channel = LEDGER_CHANNEL /\ rcv_tag = 5

\* read_apdu, lines 164-174: channel and tag are read into _rcv_channel and
\* _rcv_tag and compared with nothing
HeaderAccepted(rcv_channel, rcv_tag) == TRUE

\* mutant: the sequence number of a received packet is not checked
SeqMatches_NoCheck(rcv_seq_idx, idx) == TRUE

\* read_apdu, line 176: the packet is the one expected next
SeqMatches(rcv_seq_idx, idx) == rcv_seq_idx = idx

\* mutant: the length field of packet 0 is not skipped
ReadPos_Five(rcv_seq_idx) == 5

\* read_apdu, lines 164-184: the position of the reader behind the header,
\* which in packet 0 includes the 2-byte length
ReadPos(rcv_seq_idx) == IF rcv_seq_idx = 0 THEN 7 ELSE 5


\* mutant: everything after the header is taken, whatever is still missing
TakeLen_Available(pos, expected, have) == LEDGER_PACKET_SIZE - pos

\* read_apdu, lines 184-186: bytes taken from a packet read from position pos
TakeLen(pos, expected, have) ==
    LET available == LEDGER_PACKET_SIZE - pos
        missing   == expected - have
    IN Min(available, missing)

\* mutant: only an empty answer is too short
TooShort_Empty(res) == res < 1

\* exchange, line 212: the answer cannot hold a status word
TooShort(res) == res < 2

\* exchange, line 216: Ok(APDUAnswer::from_answer(answer))
BuildAnswer(answer) ==
    LET o == FromAnswerOutcome(answer)
    IN IF o.tag = "Value" THEN Ok(o.answer) ELSE Res("Panic", o.msg, <<>>, 0)

\* read_apdu, one iteration of the loop (lines 152-198); when the answer is
\* complete, the return into exchange and its end (lines 210-216)
ReadPacket(t) ==
    /\ pc[t] = "read"
    /\ \E rd \in {<<0, 0>>} \cup {<<k, res>> : k \in 1..Len(dev_out),
                                               res \in ReadSizes \ {0}}
                 \cup {<<0, -1>>} :
        LET k      == rd[1]
            res    == rd[2]
            \* read_timeout stores res bytes at the head of the buffer
            buffer == [i \in 1..LEDGER_PACKET_SIZE |->
                          IF i <= res THEN dev_out[k][i] ELSE rbuffer[t][i]]
            rcv_seq_idx == buffer[4] * 256 + buffer[5]
            expected == IF rcv_seq_idx = 0
                        THEN buffer[6] * 256 + buffer[7]
                        ELSE expected_apdu_len[t]
            pos    == ReadPos(rcv_seq_idx)
            end_p  == pos + TakeLen(pos, expected, Len(apdu_answer[t]))
            answer == apdu_answer[t] \o SubSeq(buffer, pos + 1, end_p)
        IN /\ rd_log' = [rd_log EXCEPT ![t] = Append(@, rd)]
           /\ rcv' = [rcv EXCEPT ![t] =
                        Append(@, IF res > 0 THEN SubSeq(dev_out[k], 1, res)
                                             ELSE <<>>)]
           /\ bus' = Append(bus, <<t, xn[t], "r", res>>)
           /\ IF res < 0
              THEN /\ Return(t, HidErr)
                   /\ apdu_answer' = [apdu_answer EXCEPT ![t] = <<>>]
              ELSE IF ShortRead(sequence_idx[t], res)
              THEN /\ Return(t, Comm("Read error. Incomplete header"))
                   /\ apdu_answer' = [apdu_answer EXCEPT ![t] = <<>>]
              ELSE IF ~HeaderAccepted(buffer[1] * 256 + buffer[2], buffer[3])
              THEN /\ Return(t, Comm("Invalid channel or tag"))
                   /\ apdu_answer' = [apdu_answer EXCEPT ![t] = <<>>]
              ELSE IF ~SeqMatches(rcv_seq_idx, sequence_idx[t])
              THEN /\ Return(t, Comm("Invalid sequence idx"))
                   /\ apdu_answer' = [apdu_answer EXCEPT ![t] = <<>>]
              ELSE IF Len(answer) >= expected
              THEN IF TooShort(Len(answer))
                   THEN /\ Return(t, Comm("response was too short"))
                        /\ apdu_answer' = [apdu_answer EXCEPT ![t] = <<>>]
                   ELSE /\ Return(t, BuildAnswer(answer))
                        /\ apdu_answer' = [apdu_answer EXCEPT ![t] = answer]
              ELSE /\ apdu_answer' = [apdu_answer EXCEPT ![t] = answer]
                   /\ rbuffer' = [rbuffer EXCEPT ![t] = buffer]
                   /\ expected_apdu_len' = [expected_apdu_len EXCEPT ![t] = expected]
                   /\ sequence_idx' = [sequence_idx EXCEPT ![t] = (@ + 1) % 65536]
                   /\ UNCHANGED <<pc, result, device_mutex, in_data, wbuffer, wseq>>
    /\ UNCHANGED <<xn, command, wire, dev_out, waitq, overtook>>
    /\ UNCHANGED <<dev_mode, scvars, fnvars, opsvars, regvars, upvars, lockvars, psgtvars, asyncvars>>

\* impl Exchange for TransportNativeHID: the answer is passed on, every error
\* becomes TransportError::APDUExchangeError
TraitExchange(res) ==
    IF res.tag = "Ok"
    THEN [ok |-> TRUE, answer |-> Answer(res.data, res.retcode), err |-> ""]
    ELSE [ok |-> FALSE, answer |-> NoAnswer, err |-> "APDUExchangeError"]


HidInitCommon ==
    /\ xn = [t \in Threads |-> 0]
    /\ in_data = [t \in Threads |-> <<>>]
    /\ wbuffer = [t \in Threads |-> <<>>]
    /\ wseq = [t \in Threads |-> 0]
    /\ rbuffer = [t \in Threads |-> <<>>]
    /\ sequence_idx = [t \in Threads |-> 0]
    /\ expected_apdu_len = [t \in Threads |-> 0]
    /\ apdu_answer = [t \in Threads |-> <<>>]
    /\ result = [t \in Threads |-> NoRes]
    /\ rd_log = [t \in Threads |-> <<>>]
    /\ rcv = [t \in Threads |-> <<>>]
    /\ device_mutex = 0
    /\ wire = <<>>
    /\ dev_out = <<>>
    /\ bus = <<>>
    /\ waitq = <<>>
    /\ overtook = FALSE
    /\ calls = 0
    /\ start_command = MkCommand(ChunkInit, 0, 0)
    /\ message = <<>>
    /\ packet_idx = 0
    /\ response = NoAnswer
    /\ sc_result = ScNone
    /\ exch_log = <<>>
    /\ fn = "none"
    /\ fn_arg = <<>>
    /\ fn_ret = <<>>
    /\ op = "none"
    /\ op_out = NoRes
    /\ op_result = ScNone
    /\ mapped = <<>>
    /\ reg_pc = [t \in Threads |-> "idle"]
    /\ reg_op = [t \in Threads |-> "none"]
    /\ wrapper_lock = 0
    /\ poisoned = FALSE
    /\ weak_api = 0
    /\ n_ctx = 0
    /\ strong = [c \in 1..MaxCtx |-> 0]
    /\ local_api = [t \in Threads |-> 0]
    /\ device_path = [t \in Threads |-> [tag |-> "None", path |-> 0]]
    /\ handles = [h \in 1..MaxHandles |-> [ctx |-> 0, path |-> 0]]
    /\ closed = {}
    /\ reg_result = [t \in Threads |-> [tag |-> "None", handle |-> 0, msg |-> ""]]
    /\ up_i = 0
    /\ up_prev = -1
    /\ up_result = [tag |-> "None", value |-> 0]
    /\ up_read = -1
    /\ api_lock = [c \in 1..MaxCtx |-> 0]
    /\ dev_guard = [h \in 1..MaxHandles |-> 0]
    /\ xh = [t \in Threads |-> 0]
    /\ unknown = {}
    /\ features = "None"
    /\ ps_pc = "idle"
    /\ ps_map = "Global"
    /\ ps_arg = [key |-> [type_value |-> 0, key |-> <<>>], value |-> <<>>]
    /\ ps_stream = <<>>
    /\ ps_pos = 1
    /\ polled = "none"
    /\ ticks = 0
    /\ ps_result = [tag |-> "None", key |-> [type_value |-> 0, key |-> <<>>]]

\* one caller exchanging any of the framing commands
InitHid ==
    /\ HidInitCommon
    /\ devices = <<>>
    /\ up_desc = <<>>
    /\ up_pc = "off"
    /\ pc = [t \in Threads |-> IF t = 1 THEN "idle" ELSE "off"]
    /\ sc_pc = "off"
    /\ dev_mode = "loopback"
    /\ msg_pool = "short"
    /\ \E c \in HidCommands : command = [t \in Threads |-> c]

\* one caller exchanging with a device that answers with packets of its own
InitDev ==
    /\ HidInitCommon
    /\ devices = <<>>
    /\ up_desc = <<>>
    /\ up_pc = "off"
    /\ pc = [t \in Threads |-> IF t = 1 THEN "idle" ELSE "off"]
    /\ sc_pc = "off"
    /\ dev_mode = "answer"
    /\ msg_pool = "short"
    /\ \E c \in XCommands : command = [t \in Threads |-> c]

\* two callers sharing one TransportNativeHID
InitX ==
    /\ HidInitCommon
    /\ devices = <<>>
    /\ up_desc = <<>>
    /\ up_pc = "off"
    /\ pc = [t \in Threads |-> "idle"]
    /\ sc_pc = "off"
    /\ dev_mode = "loopback"
    /\ msg_pool = "short"
    /\ command \in [Threads -> XCommands]

\* two callers, one command, a device that answers with any channel and tag
InitHeader ==
    /\ HidInitCommon
    /\ devices = <<>>
    /\ up_desc = <<>>
    /\ up_pc = "off"
    /\ pc = [t \in Threads |-> "idle"]
    /\ sc_pc = "off"
    /\ dev_mode = "header"
    /\ msg_pool = "short"
    /\ command = [t \in Threads |-> MkCommand(ChunkInit, 1, 0)]

\* each of the two callers makes one exchange
HeaderNext ==
    \E t \in Threads :
        \/ xn[t] = 0 /\ Call(t)
        \/ Lock(t)
        \/ WritePacket(t)
        \/ ReadPacket(t)

\* the future of Exchange::exchange is polled on the scheduler thread (thread
\* 1): its body starts with the call of the blocking exchange (lines 314-316)
PollExchange ==
    /\ polled = "none"
    /\ pc[1] = "idle"
    /\ xn[1] < MaxExchanges
    /\ polled' = "exchange"
    /\ pc' = [pc EXCEPT ![1] = "lock"]
    /\ xn' = [xn EXCEPT ![1] = @ + 1]
    /\ result' = [result EXCEPT ![1] = NoRes]
    /\ apdu_answer' = [apdu_answer EXCEPT ![1] = <<>>]
    /\ rd_log' = [rd_log EXCEPT ![1] = <<>>]
    /\ rcv' = [rcv EXCEPT ![1] = <<>>]
    /\ waitq' = Append(waitq, 1)
    /\ UNCHANGED <<command, in_data, wbuffer, wseq, rbuffer, sequence_idx,
                   expected_apdu_len, device_mutex, wire, dev_out, bus,
                   overtook, ticks>>
    /\ UNCHANGED <<dev_mode, scvars, fnvars, opsvars, regvars, upvars, lockvars,
                   psgtvars>>

\* the blocking exchange has returned; `future::ready(Ok(call)).await` (line
\* 317) or the `?` of line 316 completes at once, and the poll returns Ready
PollReturn ==
    /\ polled = "exchange"
    /\ pc[1] = "idle"
    /\ polled' = "none"
    /\ UNCHANGED <<ticks, hidvars, scvars, fnvars, opsvars, regvars, upvars,
                   lockvars, psgtvars>>

\* the scheduler thread, inside no poll, polls its other task, which runs to
\* its next await
PollOther ==
    /\ polled = "none"
    /\ ticks < MaxTicks
    /\ ticks' = ticks + 1
    /\ UNCHANGED <<polled, hidvars, scvars, fnvars, opsvars, regvars, upvars,
                   lockvars, psgtvars>>

\* a scheduler thread with two tasks, one of them awaiting an exchange
InitAsync ==
    /\ HidInitCommon
    /\ devices = <<>>
    /\ up_desc = <<>>
    /\ up_pc = "off"
    /\ pc = [t \in Threads |-> IF t = 1 THEN "idle" ELSE "off"]
    /\ sc_pc = "off"
    /\ dev_mode = "loopback"
    /\ msg_pool = "short"
    /\ \E c \in XCommands : command = [t \in Threads |-> c]

AsyncNext ==
    \/ PollExchange
    \/ Lock(1)
    \/ WritePacket(1)
    \/ ReadPacket(1)
    \/ PollReturn
    \/ PollOther

HidNext == \E t \in Threads : Call(t) \/ Lock(t) \/ WritePacket(t) \/ ReadPacket(t)

\* ------------------------------------------------------------ ledgerdevice.rs
\* mutant: 0x6F01 gets the description of 0x6F00
map_apdu_error_description_Merged(retcode) ==
    CASE retcode = 25600 -> "APDU_CODE_EXECUTION_ERROR - No information given (NV-Ram not changed)"
      [] retcode = 26368 -> "APDU_CODE_WRONG_LENGTH - Wrong length"
      [] retcode = 27010 -> "APDU_CODE_EMPTY_BUFFER"
      [] retcode = 27011 -> "APDU_CODE_OUTPUT_BUFFER_TOO_SMALL - "
      [] retcode = 27012 -> "APDU_CODE_DATA_INVALID - data reversibly blocked (invalidated)"
      [] retcode = 27013 -> "APDU_CODE_CONDITIONS_NOT_SATISFIED - Conditions of use not satisfied"
      [] retcode = 27014 -> "APDU_CODE_COMMAND_NOT_ALLOWED - Command not allowed (no current EF)"
      [] retcode = 27264 -> "APDU_CODE_BAD_KEY_HANDLE - The parameters in the data field are incorrect"
      [] retcode = 27392 -> "APDU_CODE_INVALIDP1P2 - Wrong parameter(s) P1-P2"
      [] retcode = 27904 -> "APDU_CODE_INS_NOT_SUPPORTED - Instruction code not supported or invalid"
      [] retcode = 28160 -> "APDU_CODE_CLA_NOT_SUPPORTED - Class not supported"
      [] retcode \in {28416, 28417} -> "APDU_CODE_UNKNOWN - "
      [] OTHER -> "[APDU_ERROR] Unknown"


\* mutant: every status word gets the fallback description
map_apdu_error_description_Fallback(retcode) == "[APDU_ERROR] Unknown"

\* LedgerDevice::map_apdu_error_description
map_apdu_error_description(retcode) ==
    CASE retcode = 25600 -> "APDU_CODE_EXECUTION_ERROR - No information given (NV-Ram not changed)"
      [] retcode = 26368 -> "APDU_CODE_WRONG_LENGTH - Wrong length"
      [] retcode = 27010 -> "APDU_CODE_EMPTY_BUFFER"
      [] retcode = 27011 -> "APDU_CODE_OUTPUT_BUFFER_TOO_SMALL - "
      [] retcode = 27012 -> "APDU_CODE_DATA_INVALID - data reversibly blocked (invalidated)"
      [] retcode = 27013 -> "APDU_CODE_CONDITIONS_NOT_SATISFIED - Conditions of use not satisfied"
      [] retcode = 27014 -> "APDU_CODE_COMMAND_NOT_ALLOWED - Command not allowed (no current EF)"
      [] retcode = 27264 -> "APDU_CODE_BAD_KEY_HANDLE - The parameters in the data field are incorrect"
      [] retcode = 27392 -> "APDU_CODE_INVALIDP1P2 - Wrong parameter(s) P1-P2"
      [] retcode = 27904 -> "APDU_CODE_INS_NOT_SUPPORTED - Instruction code not supported or invalid"
      [] retcode = 28160 -> "APDU_CODE_CLA_NOT_SUPPORTED - Class not supported"
      [] retcode = 28416 -> "APDU_CODE_UNKNOWN - "
      [] retcode = 28417 -> "APDU_CODE_SIGN_VERIFY_ERROR - "
      [] OTHER -> "[APDU_ERROR] Unknown"

\* ----------------------------------------------- model inputs (send_chunks)
\* message byte i (0-based)
MsgPat(seed, i) == (seed + i) % 251
MkMessage(seed, n) == [i \in 1..n |-> MsgPat(seed, i - 1)]
\* lengths at, next to and between the piece boundaries
MsgLens == {n \in 0..(MaxPieces * USER_MESSAGE_CHUNK_SIZE) :
               n % USER_MESSAGE_CHUNK_SIZE \in {0, 1, 125, 249}}
Messages == {MkMessage(3, n) : n \in MsgLens}
\* messages at the limit of MAX_CHUNKS pieces and one byte beyond it, with an
\* empty and a one-byte message
LimitLens == {0, 1, MAX_CHUNKS * USER_MESSAGE_CHUNK_SIZE,
              MAX_CHUNKS * USER_MESSAGE_CHUNK_SIZE + 1}
\* (SubSeq yields them as evaluated tuples, which TLC handles faster)
LimitMessages == {SubSeq(MkMessage(3, n), 1, n) : n \in LimitLens}
\* the messages the callers of this behaviour send
\* a message of one piece and a message of two
ShareMessages == {MkMessage(3, 1), MkMessage(3, USER_MESSAGE_CHUNK_SIZE + 1)}
ScMessages ==
    CASE msg_pool = "limit" -> LimitMessages
      [] msg_pool = "share" -> ShareMessages
      [] OTHER -> Messages
StartCommands ==
    {[cla |-> 224, ins |-> ins, p1 |-> p1, p2 |-> p2, data |-> <<>>] :
        ins \in {11, 12}, p1 \in {ChunkInit, ChunkAdd}, p2 \in {5}}
\* status words the device may answer with: success, a mapped one, an unmapped one
StatusWords == {SW_OK, 27013, 28482}
AnswerDatas == {<<>>, <<1>>}
\* what APDUTransport::exchange (a Box<dyn Exchange>) may return
Outcomes ==
    {[ok |-> TRUE, answer |-> Answer(d, sw), err |-> ""] :
        d \in AnswerDatas, sw \in StatusWords}
    \cup {[ok |-> FALSE, answer |-> NoAnswer, err |-> e] : e \in TransportErrors}

\* mutant: pieces of the 255-byte wire ceiling instead of the chunk size
MessageChunks_255(msg) == Chunks(msg, 255)

\* send_chunks, line 618: message.chunks(USER_MESSAGE_CHUNK_SIZE)
MessageChunks(msg) == Chunks(msg, USER_MESSAGE_CHUNK_SIZE)

\* mutant: the limit is applied one piece early
TooManyChunks_Early(n) == n >= MAX_CHUNKS

\* send_chunks, line 623: more pieces than one byte can count
TooManyChunks(n) == n > MAX_CHUNKS

\* mutant: every payload type but Last is taken for Init
IsInitCommand_NotLast(c) == c.p1 # ChunkLast

\* send_chunks, line 628: the start command carries the Init payload type
IsInitCommand(c) == c.p1 = ChunkInit

\* send_chunks returns
ScReturn(res) ==
    /\ sc_result' = res
    /\ sc_pc' = IF res.tag = "Ok" THEN "done" ELSE "failed"

\* send_chunks is called; lines 617-630, the checks made before any exchange
SendChunksCall ==
    /\ sc_pc \in {"idle", "done", "failed"}
    /\ calls < MaxCalls
    /\ calls' = calls + 1
    /\ \E c \in StartCommands, m \in ScMessages :
        /\ start_command' = c
        /\ message' = m
        /\ LET n == ChunksLen(m, USER_MESSAGE_CHUNK_SIZE)
           IN IF n = 0 THEN ScReturn(InvalidEmptyMessage)
              ELSE IF TooManyChunks(n) THEN ScReturn(InvalidMessageSize)
              ELSE IF ~IsInitCommand(c) THEN ScReturn(InvalidChunkPayloadType)
              ELSE sc_pc' = "init" /\ sc_result' = ScNone
    /\ packet_idx' = 0
    /\ response' = NoAnswer
    /\ exch_log' = <<>>
    /\ UNCHANGED <<msg_pool, hidvars, fnvars, opsvars, regvars, upvars, lockvars, psgtvars, asyncvars>>

\* mutant: the retcode is not checked
RetcodeOk_Any(retcode) == TRUE

\* send_chunks, lines 634-640 and 663-669: the check of an answer's retcode
RetcodeOk(retcode) == retcode = SW_OK

\* send_chunks, lines 633-640: the exchange of the start command
ExchangeInitWith(out) ==
    /\ sc_pc = "init"
    /\ exch_log' = Append(exch_log, [cmd |-> start_command, out |-> out])
    /\ IF ~out.ok
       THEN ScReturn(FromTransportError(out.err)) /\ UNCHANGED response
       ELSE /\ response' = out.answer
            /\ IF ~RetcodeOk(out.answer.retcode)
               THEN ScReturn(AppSpecific(out.answer.retcode,
                        map_apdu_error_description(out.answer.retcode)))
               ELSE sc_pc' = "pieces" /\ UNCHANGED sc_result
    /\ UNCHANGED <<calls, start_command, message, packet_idx>>
    /\ UNCHANGED <<msg_pool, hidvars, fnvars, opsvars, regvars, upvars, lockvars, psgtvars, asyncvars>>

\* the same, over a transport that returns any of Outcomes
ExchangeInit == \E out \in Outcomes : ExchangeInitWith(out)

\* send_chunks, lines 646-659: the command that carries piece packet_idx
PieceCommand(start, idx, last_chunk_index, chunk) ==
    [cla |-> start.cla, ins |-> start.ins,
     p1 |-> IF idx = last_chunk_index THEN ChunkLast ELSE ChunkAdd,
     p2 |-> 0, data |-> chunk]

\* mutant: the answers to the pieces are dropped, the Init answer is kept
NextResponse_Keep(prev, answer) == prev

\* send_chunks, line 662: the answer to a piece replaces the previous response
NextResponse(prev, answer) == answer

\* send_chunks, one iteration of the loop over the pieces (lines 644-670)
ExchangePieceWith(out) ==
    /\ sc_pc = "pieces"
    \* a transfer is followed for its first MaxPieces pieces
    /\ packet_idx < MaxPieces
    /\ LET chunks == MessageChunks(message)
           last_chunk_index == Len(chunks) - 1
           cmd == PieceCommand(start_command, packet_idx, last_chunk_index,
                               chunks[packet_idx + 1])
       IN   /\ exch_log' = Append(exch_log, [cmd |-> cmd, out |-> out])
            /\ IF ~out.ok
               THEN /\ ScReturn(FromTransportError(out.err))
                    /\ UNCHANGED <<response, packet_idx>>
               ELSE /\ response' = NextResponse(response, out.answer)
                    /\ IF ~RetcodeOk(out.answer.retcode)
                       THEN /\ ScReturn(AppSpecific(out.answer.retcode,
                                   map_apdu_error_description(out.answer.retcode)))
                            /\ UNCHANGED packet_idx
                       ELSE \* the iterator yields the next piece, or ends the loop
                            /\ packet_idx' = packet_idx + 1
                            /\ sc_pc' = IF packet_idx + 1 = Len(chunks)
                                        THEN "last" ELSE "pieces"
                            /\ UNCHANGED sc_result
    /\ UNCHANGED <<calls, start_command, message>>
    /\ UNCHANGED <<msg_pool, hidvars, fnvars, opsvars, regvars, upvars, lockvars, psgtvars, asyncvars>>

\* the same, over a transport that returns any of Outcomes
ExchangePiece == \E out \in Outcomes : ExchangePieceWith(out)

\* send_chunks, line 673: the loop is over, the last response is returned
SendChunksReturn ==
    /\ sc_pc = "last"
    /\ ScReturn(ScOk(response))
    /\ UNCHANGED <<calls, start_command, message, packet_idx, response, exch_log>>
    /\ UNCHANGED <<msg_pool, hidvars, fnvars, opsvars, regvars, upvars, lockvars, psgtvars, asyncvars>>

\* one LedgerDevice sending chunked messages over an abstract transport
InitSc ==
    /\ HidInitCommon
    /\ devices = <<>>
    /\ up_desc = <<>>
    /\ up_pc = "off"
    /\ pc = [t \in Threads |-> "off"]
    /\ command = [t \in Threads |-> MkCommand(ChunkInit, 0, 0)]
    /\ sc_pc = "idle"
    /\ dev_mode = "loopback"
    /\ msg_pool = "short"

\* the same, the callers sending messages at the limit of MAX_CHUNKS pieces
InitLimit ==
    /\ HidInitCommon
    /\ devices = <<>>
    /\ up_desc = <<>>
    /\ up_pc = "off"
    /\ pc = [t \in Threads |-> "off"]
    /\ command = [t \in Threads |-> MkCommand(ChunkInit, 0, 0)]
    /\ sc_pc = "idle"
    /\ dev_mode = "loopback"
    /\ msg_pool = "limit"

ScNext == SendChunksCall \/ ExchangeInit \/ ExchangePiece \/ SendChunksReturn

\* --------------------- send_chunks over a TransportNativeHID that is shared
\* the command of the sub-exchange send_chunks makes next
SubCommand ==
    IF sc_pc = "init" THEN start_command
    ELSE LET chunks == MessageChunks(message)
         IN PieceCommand(start_command, packet_idx, Len(chunks) - 1,
                         chunks[packet_idx + 1])

\* send_chunks is called once, by thread 1
ShareSendChunks ==
    /\ calls = 0
    /\ SendChunksCall

\* apdu_transport.exchange(..) of lines 633 and 661: thread 1 enters
\* TransportNativeHID::exchange with the command of the sub-exchange
ShareSubCall ==
    /\ sc_pc \in {"init", "pieces"}
    /\ sc_pc = "pieces" => packet_idx < MaxPieces
    /\ pc[1] = "idle"
    /\ xn[1] = Len(exch_log)
    /\ command' = [command EXCEPT ![1] = SubCommand]
    /\ pc' = [pc EXCEPT ![1] = "lock"]
    /\ xn' = [xn EXCEPT ![1] = @ + 1]
    /\ result' = [result EXCEPT ![1] = NoRes]
    /\ apdu_answer' = [apdu_answer EXCEPT ![1] = <<>>]
    /\ rd_log' = [rd_log EXCEPT ![1] = <<>>]
    /\ rcv' = [rcv EXCEPT ![1] = <<>>]
    /\ waitq' = Append(waitq, 1)
    /\ UNCHANGED <<in_data, wbuffer, wseq, rbuffer, sequence_idx,
                   expected_apdu_len, device_mutex, wire, dev_out, bus,
                   overtook>>
    /\ UNCHANGED <<dev_mode, scvars, fnvars, opsvars, regvars, upvars, lockvars, psgtvars, asyncvars>>

\* the sub-exchange has returned through the Exchange impl, and send_chunks
\* goes on with what it returned
ShareSubReturn ==
    /\ sc_pc \in {"init", "pieces"}
    /\ pc[1] = "idle"
    /\ xn[1] = Len(exch_log) + 1
    /\ IF sc_pc = "init"
       THEN ExchangeInitWith(TraitExchange(result[1]))
       ELSE ExchangePieceWith(TraitExchange(result[1]))

\* thread 1 sends one chunked message and thread 2 makes plain exchanges, on
\* the same handle; the device answers each command with a status word
InitShare ==
    /\ HidInitCommon
    /\ devices = <<>>
    /\ up_desc = <<>>
    /\ up_pc = "off"
    /\ pc = [t \in Threads |-> "idle"]
    /\ sc_pc = "idle"
    /\ dev_mode = "status"
    /\ msg_pool = "share"
    /\ command = [t \in Threads |-> MkCommand(ChunkInit, 1, 0)]

ShareNext ==
    \/ ShareSendChunks
    \/ ShareSubCall
    \/ ShareSubReturn
    \/ SendChunksReturn
    \/ Call(2)
    \/ \E t \in Threads : Lock(t) \/ WritePacket(t) \/ ReadPacket(t)

\* ------------------------------------------- the functions of apdu_types.rs
\* payload lengths around the range of the length byte of serialize
FnDataLens == (0..MaxDataLen) \cup {254, 255, 256, 257}
FnCommands == {MkCommand(p1, 1, n) : p1 \in {ChunkInit, ChunkLast}, n \in FnDataLens}
\* raw answers up to MaxAnswerLen bytes, with two contents
FnAnswers == {MkRaw(seed, n) : seed \in {144, 105}, n \in 0..MaxAnswerLen}

\* command.serialize() is called
ApplySerialize ==
    /\ \E c \in FnCommands :
        /\ fn' = "serialize"
        /\ fn_arg' = c
        /\ fn_ret' = serialize(c)
    /\ UNCHANGED <<hidvars, scvars, opsvars, regvars, upvars, lockvars, psgtvars, asyncvars>>

\* APDUAnswer::from_answer(answer) is called
ApplyFromAnswer ==
    /\ \E a \in FnAnswers :
        /\ fn' = "from_answer"
        /\ fn_arg' = a
        /\ fn_ret' = FromAnswerOutcome(a)
    /\ UNCHANGED <<hidvars, scvars, opsvars, regvars, upvars, lockvars, psgtvars, asyncvars>>

\* the two functions applied to any of their inputs
InitFn ==
    /\ HidInitCommon
    /\ devices = <<>>
    /\ up_desc = <<>>
    /\ up_pc = "off"
    /\ pc = [t \in Threads |-> "off"]
    /\ command = [t \in Threads |-> MkCommand(ChunkInit, 0, 0)]
    /\ sc_pc = "off"
    /\ dev_mode = "loopback"
    /\ msg_pool = "short"

FnNext == ApplySerialize \/ ApplyFromAnswer

\* self.map_apdu_error_description(retcode) is called, once in a behaviour
\* (the function keeps no state), with any 16-bit retcode
ApplyMap ==
    /\ fn = "none"
    /\ \E retcode \in 0..65535 :
        /\ fn' = "map_apdu_error_description"
        /\ fn_arg' = retcode
        /\ fn_ret' = map_apdu_error_description(retcode)
    /\ UNCHANGED <<hidvars, scvars, opsvars, regvars, upvars, lockvars, psgtvars, asyncvars>>

\* ------------------------------------- ledgerdevice.rs, the short operations
\* what the device answers to a short operation: data too short for the
\* 4 bytes taken from it, 4 bytes of text, 4 bytes that are no UTF-8, 5 bytes
OpDatas == {<<>>, <<1>>, <<71, 114, 105, 110>>, <<255, 254, 253, 252>>,
            <<71, 114, 105, 110, 33>>}
\* success, the 13 status words with a description, one without
OpStatusWords == {SW_OK, 25600, 26368, 27010, 27011, 27012, 27013, 27014,
                  27264, 27392, 27904, 28160, 28416, 28417, 28482}
\* what TransportNativeHID::exchange may return
OpHidResults ==
    {Ok(Answer(d, sw)) : d \in OpDatas, sw \in OpStatusWords}
    \cup {Comm("Read error. Incomplete header"), HidErr}

\* str::from_utf8 on the inputs of OpDatas: bytes below 0x80 are text, the
\* bytes 0xFC..0xFF occur in no UTF-8 sequence
IsUtf8(bytes) == \A i \in 1..Len(bytes) : bytes[i] < 128

ScUnit == ScRes("Ok", NoAnswer, 0, "", "")
ScPanic(msg) == ScRes("Panic", NoAnswer, 0, msg, "")

\* get_app_name and get_num_slots, which differ in the instruction only:
\* a transport is made, the command exchanged, the description of the retcode
\* looked up, the first 4 bytes of the data decoded as text
GetOp(name) ==
    /\ op' = name
    /\ \/ \* TransportNativeHID::new() fails: expect panics
          /\ op_out' = NoRes
          /\ op_result' = ScPanic("Could not get a device")
          /\ mapped' = <<>>
       \/ \E r \in OpHidResults :
            LET out == TraitExchange(r)
            IN /\ op_out' = r
               /\ IF ~out.ok
                  THEN /\ op_result' = FromTransportError(out.err)
                       /\ mapped' = <<>>
                  ELSE /\ mapped' = <<out.answer.retcode>>
                       /\ op_result' =
                             IF Len(out.answer.data) < 4
                             THEN ScPanic("range end index 4 out of range")
                             ELSE IF ~IsUtf8(SubSeq(out.answer.data, 1, 4))
                             THEN ScRes("Utf8", NoAnswer, 0, "", "")
                             ELSE ScUnit
    /\ UNCHANGED <<hidvars, scvars, fnvars, regvars, upvars, lockvars, psgtvars, asyncvars>>

\* LedgerDevice::get_app_name
GetAppName == GetOp("get_app_name")

\* LedgerDevice::get_num_slots
GetNumSlots == GetOp("get_num_slots")

\* LedgerDevice::send_simple: the command is exchanged, what the exchange
\* returned is dropped
SendSimple ==
    /\ op' = "send_simple"
    /\ \E r \in OpHidResults : op_out' = r
    /\ op_result' = ScUnit
    /\ mapped' = <<>>
    /\ UNCHANGED <<hidvars, scvars, fnvars, regvars, upvars, lockvars, psgtvars, asyncvars>>

OpsNext == GetAppName \/ GetNumSlots \/ SendSimple

\* ------------------------------------- transportnativehid.rs, the registry
\* an entry of api.device_list(); readable tells whether get_usage_page can
\* read the report descriptor of the device (always, where usage_page() of
\* the enumeration is used instead)
DeviceInfo(vid, page, readable) ==
    [vendor_id |-> vid, usage_page |-> page, readable |-> readable]
\* the Ledger interface looked for, another interface of a Ledger device,
\* each with a descriptor that can or cannot be read, and a device of
\* another vendor with the usage page looked for
DeviceKinds ==
    {DeviceInfo(LEDGER_VID, LEDGER_USAGE_PAGE, TRUE),
     DeviceInfo(LEDGER_VID, LEDGER_USAGE_PAGE, FALSE),
     DeviceInfo(LEDGER_VID, LEDGER_USAGE_PAGE - 1, TRUE),
     DeviceInfo(LEDGER_VID, LEDGER_USAGE_PAGE - 1, FALSE),
     DeviceInfo(LEDGER_VID + 1, LEDGER_USAGE_PAGE, TRUE)}
DeviceLists == UNION {[1..n -> DeviceKinds] : n \in 0..MaxDevices}
RegOps == {"new", "list_all_devices", "ledger_device_path"}

\* Result<&CStr, LedgerHIDError> of the discovery; the path of a device is
\* its place in the enumeration
PathRes(tag, path) == [tag |-> tag, path |-> path]
NoPath == PathRes("None", 0)

\* get_usage_page: the usage page of the report descriptor, or the error of
\* the failed open or ioctl
get_usage_page(device) ==
    IF device.readable THEN PathRes("Ok", device.usage_page)
    ELSE PathRes("Io", 0)

\* find_ledger_device_path, the loop from entry i on
RECURSIVE FindFrom(_, _)
FindFrom(device_list, i) ==
    IF i > Len(device_list) THEN PathRes("DeviceNotFound", 0)
    ELSE IF device_list[i].vendor_id = LEDGER_VID
    THEN LET usage_page == get_usage_page(device_list[i])
         IN IF usage_page.tag # "Ok" THEN usage_page
            ELSE IF usage_page.path = LEDGER_USAGE_PAGE
            THEN PathRes("Ok", i)
            ELSE FindFrom(device_list, i + 1)
    ELSE FindFrom(device_list, i + 1)

\* TransportNativeHID::find_ledger_device_path
find_ledger_device_path(device_list) == FindFrom(device_list, 1)

\* mutant: the back-reference is never upgraded
Upgrade_Never(weak, counts) == 0

\* Weak::upgrade in HidApiWrapper::get: the context the back-reference
\* names if that context is alive, 0 (None) otherwise
Upgrade(weak, counts) == IF weak # 0 /\ counts[weak] > 0 THEN weak ELSE 0

\* mutant: the registry keeps an owning reference to the context it made
NewStrong_Owning(c) == 2

\* HidApiWrapper::get: the strong count of a context just made: the Arc that
\* is returned; the Weak the registry keeps adds nothing
NewStrong(c) == 1

\* a Device Handle: the context its api_mutex references (0: no such
\* handle) and the path its device was opened at
Handle(ctx, path) == [ctx |-> ctx, path |-> path]
NoHandle == Handle(0, 0)
LiveHandles == {h \in 1..MaxHandles : handles[h].ctx # 0}
FreeHandles == (1..MaxHandles) \ LiveHandles

\* what a registry call returned
RegRes(tag, handle, msg) == [tag |-> tag, handle |-> handle, msg |-> msg]
RegNone == RegRes("None", 0, "")
RegPanic(msg) == RegRes("Panic", 0, msg)

\* the guard of the context's Mutex is dropped, if thread t holds one
ApiRelease(t) ==
    api_lock' = [c \in 1..MaxCtx |-> IF api_lock[c] = t THEN 0 ELSE api_lock[c]]

\* mutant: the lock of HIDAPIWRAPPER is kept when the call returns
RegReturn_KeepLock(t, res) ==
    /\ reg_result' = [reg_result EXCEPT ![t] = res]
    /\ reg_pc' = [reg_pc EXCEPT ![t] = "idle"]
    /\ wrapper_lock' = wrapper_lock
    /\ ApiRelease(t)
    /\ IF local_api[t] # 0
       THEN strong' = [strong EXCEPT ![local_api[t]] = @ - 1]
       ELSE UNCHANGED strong
    /\ local_api' = [local_api EXCEPT ![t] = 0]

\* the call of thread t returns or unwinds: its Arc and its guards are dropped
RegReturn(t, res) ==
    /\ reg_result' = [reg_result EXCEPT ![t] = res]
    /\ reg_pc' = [reg_pc EXCEPT ![t] = "idle"]
    /\ wrapper_lock' = 0
    /\ ApiRelease(t)
    /\ IF local_api[t] # 0
       THEN strong' = [strong EXCEPT ![local_api[t]] = @ - 1]
       ELSE UNCHANGED strong
    /\ local_api' = [local_api EXCEPT ![t] = 0]

\* new(), list_all_devices() or ledger_device_path() is called and takes the
\* lock of HIDAPIWRAPPER; a poisoned lock makes expect panic
RegCall(t, o) ==
    /\ reg_pc[t] = "idle"
    /\ wrapper_lock = 0
    /\ n_ctx < MaxCtx
    /\ o = "new" => FreeHandles # {}
    /\ reg_op' = [reg_op EXCEPT ![t] = o]
    /\ device_path' = [device_path EXCEPT ![t] = NoPath]
    /\ IF poisoned
       THEN /\ reg_result' = [reg_result EXCEPT ![t] =
                                RegPanic("Could not lock api wrapper")]
            /\ UNCHANGED <<reg_pc, wrapper_lock>>
       ELSE /\ reg_result' = [reg_result EXCEPT ![t] = RegNone]
            /\ reg_pc' = [reg_pc EXCEPT ![t] = "locked"]
            /\ wrapper_lock' = t
    /\ UNCHANGED <<poisoned, weak_api, n_ctx, strong, local_api, handles,
                   closed, devices, lockvars>>
    /\ UNCHANGED <<hidvars, scvars, fnvars, opsvars, upvars, psgtvars, asyncvars>>

\* apiwrapper.get().expect(..): HidApiWrapper::get upgrades the back-reference
\* or makes a context and remembers it; when the context cannot be made,
\* expect panics with the lock of HIDAPIWRAPPER held
RegGet(t) ==
    /\ reg_pc[t] = "locked"
    /\ LET up == Upgrade(weak_api, strong)
       IN IF up # 0
          THEN /\ strong' = [strong EXCEPT ![up] = @ + 1]
               /\ local_api' = [local_api EXCEPT ![t] = up]
               /\ reg_pc' = [reg_pc EXCEPT ![t] = "api"]
               /\ UNCHANGED <<weak_api, n_ctx, poisoned, wrapper_lock,
                              reg_result, api_lock>>
          ELSE \/ /\ n_ctx' = n_ctx + 1
                  /\ strong' = [strong EXCEPT ![n_ctx + 1] =
                                    NewStrong(n_ctx + 1)]
                  /\ weak_api' = n_ctx + 1
                  /\ local_api' = [local_api EXCEPT ![t] = n_ctx + 1]
                  /\ reg_pc' = [reg_pc EXCEPT ![t] = "api"]
                  /\ UNCHANGED <<poisoned, wrapper_lock, reg_result, api_lock>>
               \/ /\ poisoned' = TRUE
                  /\ RegReturn(t, RegPanic("Error getting api_mutex"))
                  /\ UNCHANGED <<weak_api, n_ctx>>
    /\ UNCHANGED <<reg_op, device_path, handles, closed, devices, dev_guard,
                   xh>>
    /\ UNCHANGED <<hidvars, scvars, fnvars, opsvars, upvars, psgtvars, asyncvars>>

\* api_mutex.lock().expect(..), line 88 (360, 381): the thread waits for the
\* Mutex of the context with the lock of HIDAPIWRAPPER held. (The expect can
\* fire only on a Mutex poisoned by a panic of ledger_device_path, which has
\* poisoned HIDAPIWRAPPER too, so that no call gets here after it.)
RegApiLock(t) ==
    /\ reg_pc[t] = "api"
    /\ api_lock[local_api[t]] = 0
    /\ api_lock' = [api_lock EXCEPT ![local_api[t]] = t]
    /\ reg_pc' = [reg_pc EXCEPT ![t] = "got"]
    /\ UNCHANGED <<reg_op, wrapper_lock, poisoned, weak_api, n_ctx, strong,
                   local_api, device_path, handles, closed, reg_result,
                   devices, dev_guard, xh>>
    /\ UNCHANGED <<hidvars, scvars, fnvars, opsvars, upvars, psgtvars, asyncvars>>

\* list_all_devices, after the context is locked: the devices are printed
RegList(t) ==
    /\ reg_pc[t] = "got"
    /\ reg_op[t] = "list_all_devices"
    /\ RegReturn(t, RegRes("Unit", 0, ""))
    /\ UNCHANGED <<reg_op, poisoned, weak_api, n_ctx, device_path, handles,
                   closed, devices, dev_guard, xh>>
    /\ UNCHANGED <<hidvars, scvars, fnvars, opsvars, upvars, psgtvars, asyncvars>>

\* the discovery: in new() an error is returned with `?`, in
\* ledger_device_path() expect panics on it with both locks held
RegFind(t) ==
    /\ reg_pc[t] = "got"
    /\ reg_op[t] \in {"new", "ledger_device_path"}
    /\ LET found == find_ledger_device_path(devices)
       IN /\ device_path' = [device_path EXCEPT ![t] = found]
          /\ IF reg_op[t] = "new"
             THEN IF found.tag = "Ok"
                  THEN /\ reg_pc' = [reg_pc EXCEPT ![t] = "found"]
                       /\ UNCHANGED <<reg_result, wrapper_lock, strong,
                                      local_api, poisoned, api_lock>>
                  ELSE /\ RegReturn(t, RegRes(found.tag, 0, ""))
                       /\ UNCHANGED poisoned
             ELSE IF found.tag = "Ok"
                  THEN /\ RegReturn(t, RegRes("Unit", 0, ""))
                       /\ UNCHANGED poisoned
                  ELSE /\ RegReturn(t, RegPanic("Could not find a device"))
                       /\ poisoned' = TRUE
    /\ UNCHANGED <<reg_op, weak_api, n_ctx, handles, closed, devices,
                   dev_guard, xh>>
    /\ UNCHANGED <<hidvars, scvars, fnvars, opsvars, upvars, psgtvars, asyncvars>>

\* new(), lines 92-100: the device is opened, which may fail, and the handle
\* is built with a clone of the Arc
RegOpen(t) ==
    /\ reg_pc[t] = "found"
    /\ \/ /\ RegReturn(t, RegRes("Hid", 0, ""))
          /\ UNCHANGED handles
       \/ LET h == CHOOSE x \in FreeHandles : \A y \in FreeHandles : x <= y
          IN /\ handles' = [handles EXCEPT ![h] =
                                Handle(local_api[t], device_path[t].path)]
             /\ reg_result' = [reg_result EXCEPT ![t] = RegRes("Ok", h, "")]
             /\ reg_pc' = [reg_pc EXCEPT ![t] = "idle"]
             /\ wrapper_lock' = 0
             /\ ApiRelease(t)
             /\ local_api' = [local_api EXCEPT ![t] = 0]
             /\ UNCHANGED strong
    /\ UNCHANGED <<reg_op, poisoned, weak_api, n_ctx, device_path, closed,
                   devices, dev_guard, xh>>
    /\ UNCHANGED <<hidvars, scvars, fnvars, opsvars, upvars, psgtvars, asyncvars>>

\* a TransportNativeHID is dropped: its device is closed and its Arc dropped
DropHandle(h) ==
    /\ h \in LiveHandles
    \* not while an exchange borrows the handle
    /\ \A t \in Threads : xh[t] # h
    /\ strong' = [strong EXCEPT ![handles[h].ctx] = @ - 1]
    /\ handles' = [handles EXCEPT ![h] = NoHandle]
    /\ closed' = closed \ {h}
    /\ UNCHANGED <<reg_pc, reg_op, wrapper_lock, poisoned, weak_api, n_ctx,
                   local_api, device_path, reg_result, devices, lockvars>>
    /\ UNCHANGED <<hidvars, scvars, fnvars, opsvars, upvars, psgtvars, asyncvars>>

\* TransportNativeHID::close(), called by the owner of handle h: the function
\* takes no self and has an empty body
Close(h) ==
    /\ h \in LiveHandles
    /\ h \notin closed
    /\ closed' = closed \cup {h}
    /\ UNCHANGED <<reg_pc, reg_op, wrapper_lock, poisoned, weak_api, n_ctx,
                   strong, local_api, device_path, handles, reg_result,
                   devices, lockvars>>
    /\ UNCHANGED <<hidvars, scvars, fnvars, opsvars, upvars, psgtvars, asyncvars>>

\* exchange(command) is called on handle h
XCall(t, h) ==
    /\ reg_pc[t] = "idle"
    /\ h \in LiveHandles
    /\ xh' = [xh EXCEPT ![t] = h]
    /\ reg_op' = [reg_op EXCEPT ![t] = "exchange"]
    /\ reg_pc' = [reg_pc EXCEPT ![t] = "xlock"]
    /\ reg_result' = [reg_result EXCEPT ![t] = RegNone]
    /\ UNCHANGED <<wrapper_lock, poisoned, weak_api, n_ctx, strong, local_api,
                   device_path, handles, closed, devices, api_lock, dev_guard>>
    /\ UNCHANGED <<hidvars, scvars, fnvars, opsvars, upvars, psgtvars, asyncvars>>

\* exchange, line 205: the guard of the handle is taken, no other lock
XLock(t) ==
    /\ reg_pc[t] = "xlock"
    /\ dev_guard[xh[t]] = 0
    /\ dev_guard' = [dev_guard EXCEPT ![xh[t]] = t]
    /\ reg_pc' = [reg_pc EXCEPT ![t] = "xio"]
    /\ UNCHANGED <<reg_op, wrapper_lock, poisoned, weak_api, n_ctx, strong,
                   local_api, device_path, handles, closed, reg_result,
                   devices, api_lock, xh>>
    /\ UNCHANGED <<hidvars, scvars, fnvars, opsvars, upvars, psgtvars, asyncvars>>

\* exchange, lines 207-216: the command is written and the answer read, the
\* exchange returns an answer or an error, and the guard is dropped
XReturn(t) ==
    /\ reg_pc[t] = "xio"
    /\ \E tag \in {"Ok", "Comm", "Hid"} :
            reg_result' = [reg_result EXCEPT ![t] = RegRes(tag, xh[t], "")]
    /\ dev_guard' = [dev_guard EXCEPT ![xh[t]] = 0]
    /\ xh' = [xh EXCEPT ![t] = 0]
    /\ reg_pc' = [reg_pc EXCEPT ![t] = "idle"]
    /\ UNCHANGED <<reg_op, wrapper_lock, poisoned, weak_api, n_ctx, strong,
                   local_api, device_path, handles, closed, devices, api_lock>>
    /\ UNCHANGED <<hidvars, scvars, fnvars, opsvars, upvars, psgtvars, asyncvars>>

InitReg ==
    /\ HidInitCommon
    /\ pc = [t \in Threads |-> "off"]
    /\ command = [t \in Threads |-> MkCommand(ChunkInit, 0, 0)]
    /\ sc_pc = "off"
    /\ dev_mode = "loopback"
    /\ msg_pool = "short"
    /\ devices \in DeviceLists
    /\ up_desc = <<>>
    /\ up_pc = "off"

RegNext ==
    \/ \E t \in Threads :
        \/ \E o \in RegOps : RegCall(t, o)
        \/ RegGet(t)
        \/ RegApiLock(t)
        \/ RegList(t)
        \/ RegFind(t)
        \/ RegOpen(t)
    \/ \E h \in 1..MaxHandles : DropHandle(h) \/ Close(h)

\* the registry calls and exchanges on the handles they made
InitLocks ==
    /\ HidInitCommon
    /\ pc = [t \in Threads |-> "off"]
    /\ command = [t \in Threads |-> MkCommand(ChunkInit, 0, 0)]
    /\ sc_pc = "off"
    /\ dev_mode = "loopback"
    /\ msg_pool = "short"
    /\ up_desc = <<>>
    /\ up_pc = "off"
    /\ devices \in {<<>>, <<DeviceInfo(LEDGER_VID, LEDGER_USAGE_PAGE, TRUE)>>}

LocksNext ==
    \/ RegNext
    \/ \E t \in Threads :
        \/ \E h \in 1..MaxHandles : XCall(t, h)
        \/ XLock(t)
        \/ XReturn(t)

\* ---------------------------- transportnativehid.rs, get_usage_page's parser
\* Result<u16, LedgerHIDError> of the parse, or the panic that ends it
UpRes(tag, value) == [tag |-> tag, value |-> value]
UpNone == UpRes("None", 0)

\* report descriptor items: usage page items with 1, 2, 0 and 4 data bytes,
\* other short items with 1, 4 and 0 data bytes
ShortItems ==
    {<<5, 12>>, <<6, 160, 255>>, <<4>>, <<7, 1, 2, 3, 4>>,
     <<9, 1>>, <<23, 5, 119, 0, 0>>, <<192>>}
\* a long item with n data bytes, the first two of which read as a usage
\* page item
LongItem(n) ==
    <<254, n, 0>> \o [k \in 1..n |-> IF k = 1 THEN 5 ELSE IF k = 2 THEN 119 ELSE 0]
LongItems == {LongItem(n) : n \in {0, 2, 253, 255}}
Items == ShortItems \cup LongItems
ItemSeqs == UNION {[1..n -> Items] : n \in 0..MaxItems}
RECURSIVE Concat(_)
Concat(items) ==
    IF items = <<>> THEN <<>> ELSE Head(items) \o Concat(Tail(items))
\* the descriptors: up to MaxItems items, whole or with the last bytes cut
Descriptors ==
    {SubSeq(Concat(s), 1, Max(0, Len(Concat(s)) - k)) :
        s \in ItemSeqs, k \in 0..MaxCut}

\* data[i] of the parser, i counted from 0
DescByte(desc, i) == desc[i + 1]

\* line 279: key & 0xF0 == 0xF0
IsLongItem(key) == key \div 16 = 15
\* line 277: key & 0xFC
KeyCmd(key) == key - (key % 4)

\* lines 279-292: the size of the item header
KeySize(key) == IF IsLongItem(key) THEN 3 ELSE 1

\* lines 279-292: the data length of the item at i
DataLen(desc, i) ==
    LET key == DescByte(desc, i)
    IN IF IsLongItem(key)
       THEN IF i + 1 < Len(desc) THEN DescByte(desc, i + 1) ELSE 0
       ELSE IF key % 4 = 3 THEN 4 ELSE key % 4

\* lines 293-301: the value of the usage page item at i; an index at or past
\* the end of the slice panics
UsagePageValue(desc, i, data_len) ==
    CASE data_len = 1 ->
            IF i + 1 < Len(desc) THEN UpRes("Ok", DescByte(desc, i + 1))
            ELSE UpRes("Panic", i + 1)
      [] data_len = 2 ->
            IF i + 2 < Len(desc)
            THEN UpRes("Ok", DescByte(desc, i + 2) * 256 + DescByte(desc, i + 1))
            ELSE UpRes("Panic", i + 2)
      [] OTHER -> UpRes("Ok", 0)

\* the highest index the iteration at i reads or tries to read
LastRead(desc, i, data_len) ==
    IF KeyCmd(DescByte(desc, i)) = 4
    THEN IF data_len \in {1, 2} THEN i + data_len ELSE i
    ELSE IF IsLongItem(DescByte(desc, i)) /\ i + 1 < Len(desc) THEN i + 1
    ELSE i

\* get_usage_page, lines 275-306: one evaluation of the loop condition and,
\* if it holds, one iteration. data_len and key_size are u8: when their sum
\* passes 255 the addition panics in a build with overflow checks and wraps
\* in a build without
ParseStep ==
    /\ up_pc = "loop"
    /\ IF up_i >= Len(up_desc)
       THEN /\ up_result' = UpRes("Ok", 0)
            /\ up_pc' = "done"
            /\ UNCHANGED <<up_i, up_prev, up_read>>
       ELSE LET key == DescByte(up_desc, up_i)
                data_len == DataLen(up_desc, up_i)
                key_size == KeySize(key)
            IN /\ up_read' = Max(up_read, LastRead(up_desc, up_i, data_len))
               /\ up_prev' = up_i
               /\ IF KeyCmd(key) = 4
                  THEN /\ up_result' = UsagePageValue(up_desc, up_i, data_len)
                       /\ up_pc' = "done"
                       /\ UNCHANGED up_i
                  ELSE IF data_len + key_size <= 255
                  THEN /\ up_i' = up_i + data_len + key_size
                       /\ UNCHANGED <<up_pc, up_result>>
                  ELSE \/ /\ up_result' = UpRes("Panic", up_i)
                          /\ up_pc' = "done"
                          /\ UNCHANGED up_i
                       \/ /\ up_i' = up_i + ((data_len + key_size) % 256)
                          /\ UNCHANGED <<up_pc, up_result>>
    /\ UNCHANGED up_desc
    /\ UNCHANGED <<hidvars, scvars, fnvars, opsvars, regvars, lockvars, psgtvars, asyncvars>>

InitUp ==
    /\ HidInitCommon
    /\ devices = <<>>
    /\ pc = [t \in Threads |-> "off"]
    /\ command = [t \in Threads |-> MkCommand(ChunkInit, 0, 0)]
    /\ sc_pc = "off"
    /\ dev_mode = "loopback"
    /\ msg_pool = "short"
    /\ up_desc \in Descriptors
    /\ up_pc = "loop"

vars == <<hidvars, scvars, fnvars, opsvars, regvars, upvars, lockvars,
          psgtvars, asyncvars>>

SpecHid == InitHid /\ [][HidNext]_vars
SpecX == InitX /\ [][HidNext]_vars
SpecSc == InitSc /\ [][ScNext]_vars
SpecDev == InitDev /\ [][HidNext]_vars
SpecLimit == InitLimit /\ [][ScNext]_vars
SpecFn == InitFn /\ [][FnNext]_vars
SpecMap == InitFn /\ [][ApplyMap]_vars
SpecOps == InitFn /\ [][OpsNext]_vars
SpecReg == InitReg /\ [][RegNext]_vars
SpecUp == InitUp /\ [][ParseStep]_vars
SpecShare == InitShare /\ [][ShareNext]_vars
SpecLocks == InitLocks /\ [][LocksNext]_vars
SpecHeader == InitHeader /\ [][HeaderNext]_vars
SpecAsync == InitAsync /\ [][AsyncNext]_vars

\* the same with every call of exchange running on: the thread is scheduled,
\* the lock is granted once free, and every device write and read returns
\* (the read at the latest when LEDGER_TIMEOUT expires)
FairExchange ==
    \A t \in Threads :
        WF_vars(Lock(t)) /\ WF_vars(WritePacket(t)) /\ WF_vars(ReadPacket(t))
SpecDevFair == InitDev /\ [][HidNext]_vars /\ FairExchange
SpecXFair == InitX /\ [][HidNext]_vars /\ FairExchange

\* ======================================================================
\* Claims
\* ======================================================================

\* number of pieces of a message of n bytes
NPieces(n) == (n + USER_MESSAGE_CHUNK_SIZE - 1) \div USER_MESSAGE_CHUNK_SIZE
InFlight(t) == pc[t] \in {"write", "read"}
Succeeded(e) == e.out.ok /\ e.out.answer.retcode = 36864

\* C1: two exchanges on the same handle never interleave: a thread writes or
\* reads packets only while it holds the guard, at most one exchange is in
\* flight, and every packet transferred since the guard was last acquired
\* belongs to the exchange that acquired it.
C1_NoInterleave ==
    /\ Cardinality({t \in Threads : InFlight(t)}) <= 1
    /\ \A t \in Threads : InFlight(t) => device_mutex = t
    /\ \A i \in 1..Len(bus) : bus[i][1] = bus[1][1] /\ bus[i][2] = bus[1][2]
    /\ \A t \in Threads : InFlight(t) =>
          \A i \in 1..Len(bus) : bus[i][1] = t /\ bus[i][2] = xn[t]
    /\ \A t \in Threads : pc[t] = "read" =>
          /\ \E i \in 1..Len(bus) : bus[i][3] = "w"
          /\ bus[1][3] = "w"

\* C1 witness: one caller is reading its answer while the other, which has
\* exchanged before, waits for the guard
C1_Witness ==
    /\ pc[1] = "read" /\ pc[2] = "lock"
    /\ xn[1] = 2 /\ xn[2] = 2
    /\ Len(bus) >= 3

\* C2: an answer with a status word other than 0x9000 ends send_chunks at
\* once: it is the last exchange of the call, every exchange before it
\* succeeded, and the call returned AppSpecific with that status word and
\* the description the status table gives it.
C2_ExpectedDesc(sw) ==
    IF sw = 27013
    THEN "APDU_CODE_CONDITIONS_NOT_SATISFIED - Conditions of use not satisfied"
    ELSE "[APDU_ERROR] Unknown"
C2_FirstBadStatusReturned ==
    \A i \in 1..Len(exch_log) :
        (exch_log[i].out.ok /\ exch_log[i].out.answer.retcode # 36864) =>
            /\ i = Len(exch_log)
            /\ \A j \in 1..(i - 1) : Succeeded(exch_log[j])
            /\ sc_pc = "failed"
            /\ sc_result = AppSpecific(exch_log[i].out.answer.retcode,
                              C2_ExpectedDesc(exch_log[i].out.answer.retcode))

\* C2 witness: the first piece of a three-piece message is rejected with
\* 0x6985, the two other pieces are never sent
C2_Witness ==
    /\ sc_pc = "failed"
    /\ Len(message) = 750
    /\ Len(exch_log) = 2
    /\ sc_result.tag = "AppSpecific" /\ sc_result.code = 27013

\* C3: a send_chunks run steps Idle -> SentInit -> SendingPieces(i) ->
\* SentLast -> Done, one step per successful exchange; a failed exchange
\* leads to Failed; after Done or Failed nothing is exchanged until a new
\* call, and a new call starts with an empty record and the Init exchange.
C3_OneMore == Len(exch_log') = Len(exch_log) + 1
                /\ SubSeq(exch_log', 1, Len(exch_log)) = exch_log
C3_Step ==
    /\ sc_pc \in {"idle", "done", "failed"} =>
          /\ calls' = calls + 1
          /\ exch_log' = <<>>
          /\ packet_idx' = 0
          /\ sc_pc' \in {"init", "failed"}
    /\ sc_pc = "init" =>
          /\ C3_OneMore
          /\ exch_log'[1].cmd = start_command
          /\ IF Succeeded(exch_log'[1])
             THEN sc_pc' = "pieces" /\ packet_idx' = 0
             ELSE sc_pc' = "failed"
    /\ sc_pc = "pieces" =>
          /\ C3_OneMore
          /\ IF Succeeded(exch_log'[Len(exch_log')])
             THEN /\ packet_idx' = packet_idx + 1
                  /\ sc_pc' = IF packet_idx' = NPieces(Len(message))
                              THEN "last" ELSE "pieces"
             ELSE sc_pc' = "failed"
    /\ sc_pc = "last" =>
          /\ sc_pc' = "done"
          /\ exch_log' = exch_log
C3_Position ==
    /\ sc_pc = "init" => exch_log = <<>>
    /\ sc_pc = "pieces" =>
          /\ packet_idx \in 0..(NPieces(Len(message)) - 1)
          /\ Len(exch_log) = packet_idx + 1
    /\ sc_pc \in {"last", "done"} =>
          /\ packet_idx = NPieces(Len(message))
          /\ Len(exch_log) = packet_idx + 1
    /\ Len(exch_log) >= 1 =>
          exch_log[1].cmd = start_command /\ exch_log[1].cmd.p1 = 0
C3_StateMachine == [][C3_Step]_vars /\ []C3_Position

\* C3 witness: a second call, made after an earlier one ended, has gone
\* through Init and all three pieces and is Done
C3_Witness ==
    /\ calls = 2
    /\ sc_pc = "done"
    /\ Len(exch_log) = 4

\* C4: the Init command is exchanged first, then the pieces in message
\* order: piece k is bytes [250(k-1), 250k) of the message, the last piece
\* the remaining 1..250 bytes; p1 is Add (1) for all but the last piece and
\* Last (2) for the last, class and instruction are those of the Init
\* command, p2 is 0; once all are sent their payloads concatenated are the
\* message.
RECURSIVE C4_Concat(_, _)
C4_Concat(log, i) ==
    IF i > Len(log) THEN <<>> ELSE log[i].cmd.data \o C4_Concat(log, i + 1)
C4_PiecesInOrder ==
    LET n == NPieces(Len(message))
    IN /\ Len(exch_log) <= n + 1
       /\ Len(exch_log) >= 1 => exch_log[1].cmd = start_command
       /\ \A k \in 1..(Len(exch_log) - 1) :
            LET c == exch_log[k + 1].cmd
            IN /\ c.cla = start_command.cla
               /\ c.ins = start_command.ins
               /\ c.p2 = 0
               /\ c.p1 = IF k = n THEN 2 ELSE 1
               /\ c.data = SubSeq(message, 250 * (k - 1) + 1,
                                  Min(250 * k, Len(message)))
               /\ Len(c.data) \in 1..250
               /\ k < n => Len(c.data) = 250
       /\ sc_pc \in {"last", "done"} =>
            /\ Len(exch_log) = n + 1
            /\ C4_Concat(exch_log, 2) = message

\* C4 witness: a 501-byte message was sent as pieces of 250, 250 and 1 bytes
C4_Witness ==
    /\ sc_pc = "done"
    /\ Len(message) = 501
    /\ Len(exch_log) = 4
    /\ Len(exch_log[4].cmd.data) = 1
    /\ start_command.p2 = 5

\* C5: send_chunks returns Ok exactly when the Init exchange and each of the
\* n piece exchanges returned 0x9000; then n+1 exchanges were made, the
\* i-th of them carrying the i-th sub-command, and the Answer returned is
\* the answer to the last piece.
C5_SuccessIffAllOk ==
    sc_pc \in {"done", "failed"} =>
        LET n == NPieces(Len(message))
            allOk == /\ Len(exch_log) = n + 1
                     /\ \A i \in 1..Len(exch_log) : Succeeded(exch_log[i])
        IN /\ (sc_result.tag = "Ok") <=> allOk
           /\ (sc_pc = "done") <=> (sc_result.tag = "Ok")
           /\ sc_result.tag = "Ok" =>
                /\ n >= 1
                /\ exch_log[1].cmd = start_command
                /\ \A k \in 1..n :
                     exch_log[k + 1].cmd.data =
                        SubSeq(message, 250 * (k - 1) + 1, Min(250 * k, Len(message)))
                /\ sc_result.answer = exch_log[n + 1].out.answer

\* C5 witness: a successful two-piece transfer in which the device answered
\* the last piece with other data than the Init command
C5_Witness ==
    /\ sc_pc = "done"
    /\ Len(exch_log) = 3
    /\ exch_log[1].out.answer.data = <<>>
    /\ exch_log[3].out.answer.data = <<1>>
    /\ sc_result.answer.data = <<1>>

\* C6: a transport error of any sub-exchange ends send_chunks there: it is
\* the last exchange of the call and the call returned
\* LedgerAppError::TransportError carrying that error, not AppSpecific.
C6_TransportErrorReturned ==
    \A i \in 1..Len(exch_log) :
        ~exch_log[i].out.ok =>
            /\ i = Len(exch_log)
            /\ sc_pc = "failed"
            /\ sc_result.tag = "TransportError"
            /\ sc_result.err = exch_log[i].out.err
            /\ sc_result.code = 0 /\ sc_result.desc = ""

\* C6 witness: the transport failed on the second piece of a three-piece
\* message
C6_Witness ==
    /\ sc_pc = "failed"
    /\ Len(message) = 750
    /\ Len(exch_log) = 3
    /\ ~exch_log[3].out.ok
    /\ sc_result.tag = "TransportError"

\* the device delivered the packets of dev_out in order, each in full
Faithful(t) ==
    \A i \in 1..Len(rd_log[t]) : rd_log[t][i] = <<i, 64>>

\* C7: framing round trip. When the packets write_apdu built for a valid
\* command are fed back to read_apdu in order, read_apdu accumulates the
\* serialized command, byte for byte, asks for a further packet only while
\* one is left, and returns after the last packet written.
C7_RoundTrip ==
    \A t \in Threads :
        (pc[t] # "off" /\ Len(command[t].data) <= 255 /\ Faithful(t)) =>
            /\ pc[t] = "read" =>
                  /\ dev_out = wire
                  /\ Len(rd_log[t]) < Len(wire)
                  /\ Len(apdu_answer[t]) < Len(serialize(command[t]))
                  /\ apdu_answer[t] =
                        SubSeq(serialize(command[t]), 1, Len(apdu_answer[t]))
            /\ (pc[t] = "idle" /\ Len(rd_log[t]) >= 1) =>
                  /\ result[t].tag = "Ok"
                  /\ apdu_answer[t] = serialize(command[t])
                  /\ Len(rd_log[t]) = Len(wire)

\* C7 witness: a command written as three packets was read back from
\* exactly those three packets
C7_Witness ==
    /\ pc[1] = "idle"
    /\ Faithful(1)
    /\ Len(wire) = 3
    /\ Len(rd_log[1]) = 3
    /\ result[1].tag = "Ok"

\* C8: for a serialized command of L bytes write_apdu writes
\* ceil((L+2)/59) packets of 64 bytes, numbered 0,1,2,... in order; packet i
\* starts 0x01 0x01 0x05, then i big-endian, and carries from byte 5 on
\* bytes [59i, min(59(i+1), L+2)) of the stream "L big-endian, command".
C8_Packets ==
    LET ser    == serialize(command[1])
        L      == Len(ser)
        stream == <<L \div 256, L % 256>> \o ser
        n      == (L + 2 + 58) \div 59
    IN /\ \A i \in 1..Len(wire) :
            LET p  == wire[i]
                lo == 59 * (i - 1)
                hi == Min(59 * i, L + 2)
            IN /\ Len(p) = 64
               /\ p[1] = 1 /\ p[2] = 1 /\ p[3] = 5
               /\ p[4] = (i - 1) \div 256 /\ p[5] = (i - 1) % 256
               /\ hi > lo
               /\ \A j \in 1..(hi - lo) : p[5 + j] = stream[lo + j]
       /\ Len(wire) <= n
       /\ (pc[1] = "write" /\ wseq[1] > 0) => Len(wire) = wseq[1]
       /\ (pc[1] = "read" \/ Len(rd_log[1]) >= 1) => Len(wire) = n

\* C8 witness: all three packets of a command of more than 116 bytes are
\* written
C8_Witness ==
    /\ pc[1] = "read"
    /\ Len(wire) = 3
    /\ Len(serialize(command[1])) > 116

\* C9: in every packet written, the bytes after the chunk are zero.
C9_ZeroPadded ==
    LET L == Len(serialize(command[1]))
    IN \A i \in 1..Len(wire) :
          \A j \in (5 + Min(59 * i, L + 2) - 59 * (i - 1) + 1)..64 :
              wire[i][j] = 0

\* sequence number carried by a packet
SeqOf(p) == p[4] * 256 + p[5]

\* C10: read_apdu accepts packets only in sequence order: every packet it
\* has accumulated carried the number of packets accepted before it, and a
\* packet (read with its header) that carries another number ends read_apdu
\* with the communication error "Invalid sequence idx" and no answer.
C10_InOrder ==
    \A t \in Threads :
        LET n == Len(rd_log[t])
            \* reads whose packet was accumulated
            acc == IF pc[t] = "read" \/ result[t].tag = "Ok" THEN n ELSE n - 1
        IN /\ \A i \in 1..acc :
                /\ rd_log[t][i][2] >= 5
                /\ SeqOf(dev_out[rd_log[t][i][1]]) = i - 1
           /\ (/\ n >= 1
               /\ rd_log[t][n][2] >= (IF n = 1 THEN 7 ELSE 5)
               /\ SeqOf(dev_out[rd_log[t][n][1]]) # n - 1) =>
                /\ pc[t] = "idle"
                /\ result[t] = Comm("Invalid sequence idx")
                /\ apdu_answer[t] = <<>>

\* C10 witness: after packets 0 and 1 were accepted the device sent packet 1
\* again, and the exchange failed
C10_Witness ==
    /\ Len(rd_log[1]) = 3
    /\ rd_log[1][1][1] = 1 /\ rd_log[1][2][1] = 2 /\ rd_log[1][3] = <<2, 64>>
    /\ result[1] = Comm("Invalid sequence idx")

\* C11: a read that returns fewer than 7 bytes for the first packet, or fewer
\* than 5 bytes for a later one, ends read_apdu with the communication error
\* "Read error. Incomplete header", whatever the packet holds; a read of at
\* least that size never ends with this error.
C11_ShortReadRejected ==
    \A t \in Threads :
        LET n == Len(rd_log[t])
        IN (n >= 1 /\ rd_log[t][n][2] >= 0) =>
             LET res   == rd_log[t][n][2]
                 short == IF n = 1 THEN res < 7 ELSE res < 5
             IN IF short
                THEN /\ pc[t] = "idle"
                     /\ result[t] = Comm("Read error. Incomplete header")
                     /\ apdu_answer[t] = <<>>
                ELSE result[t].msg # "Read error. Incomplete header"

\* C11 witness: the first read returned the 6 bytes that would do for a later
\* packet, and the exchange failed
C11_Witness ==
    /\ rd_log[1] = <<<<1, 6>>>>
    /\ result[1] = Comm("Read error. Incomplete header")


\* the length that packet 0 of the device's answer declares
Declared == IF dev_out = <<>> THEN -1 ELSE dev_out[1][6] * 256 + dev_out[1][7]

\* the read loop of thread t on an answer that declares 130 bytes, every
\* packet read in order and in full: the accumulated lengths after the
\* first, second and third packet are a, b and 130, and the loop ends there
ReadsOf130(t, a, b) ==
    (pc[t] \in {"read", "idle"} /\ Declared = 130 /\ Faithful(t)) =>
        LET n == Len(rd_log[t])
        IN /\ n <= 3
           /\ apdu_answer[t] = SubSeq(MkRaw(144, 130), 1, Len(apdu_answer[t]))
           /\ n = 1 => pc[t] = "read" /\ Len(apdu_answer[t]) = a
           /\ n = 2 => pc[t] = "read" /\ Len(apdu_answer[t]) = b
           /\ n = 3 => /\ pc[t] = "idle"
                       /\ result[t].tag = "Ok"
                       /\ Len(apdu_answer[t]) = 130

\* C12 as stated: with packet 0 declaring 130 bytes the read loop ends after
\* exactly 3 packets that contribute 59, 59 and 12 bytes.
C12_AsStated == \A t \in Threads : ReadsOf130(t, 59, 59 + 59)

\* C12, amended: with packet 0 declaring 130 bytes the read loop ends after
\* exactly 3 packets that contribute 57, 59 and 14 bytes (packet 0 carries
\* the 2-byte length in front of its data), 130 bytes in all.
C12_ThreePackets == \A t \in Threads : ReadsOf130(t, 57, 57 + 59)

\* C12 witness: the 130-byte answer was read from its three packets
C12_Witness ==
    /\ Declared = 130
    /\ rd_log[1] = <<<<1, 64>>, <<2, 64>>, <<3, 64>>>>
    /\ result[1].tag = "Ok"
    /\ Len(apdu_answer[1]) = 130


\* a write of thread t's current exchange that did not succeed is the last
\* transfer on the bus: no later packet was written and nothing was read, and
\* the exchange has returned a failure whose kind satisfies IsKind
WriteFailureEnds(IsKind(_, _)) ==
    \A i \in 1..Len(bus) :
        (bus[i][3] = "w" /\ bus[i][4] # "ok") =>
            LET t == bus[i][1]
            IN /\ i = Len(bus)
               /\ pc[t] \in {"idle", "lock"}
               /\ xn[t] = bus[i][2] =>
                    /\ pc[t] = "idle"
                    /\ rd_log[t] = <<>>
                    /\ IsKind(bus[i][4], result[t])
                    /\ ~TraitExchange(result[t]).ok

AnyComm(wr, res) == res.tag = "Comm"

CommOrHid(wr, res) ==
    res = (IF wr = "short"
           THEN Comm("USB write error. Could not send whole message")
           ELSE HidErr)

\* C13 as stated: a packet write that is short or fails ends write_apdu at
\* once with a communication error; no later packet is written, no read is
\* made, the exchange fails.
C13_AsStated == WriteFailureEnds(AnyComm)

\* C13, amended: a packet write that is short or fails ends write_apdu at
\* once, a short write with the communication error "USB write error. Could
\* not send whole message", a failed device write with the HID error of the
\* device; no later packet is written, no read is made, the exchange fails.
C13_WriteFailure == WriteFailureEnds(CommOrHid)

\* C13 witness: the device write of the second packet of a command failed
\* after the first went through, and the exchange failed without a read
C13_Witness ==
    /\ Len(bus) = 2
    /\ bus[1][4] = "ok" /\ bus[2][3] = "w" /\ bus[2][4] = "err"
    /\ pc[1] = "idle"
    /\ result[1] = HidErr
    /\ rd_log[1] = <<>>

C15_FromAnswer ==
    fn = "from_answer" =>
        LET n == Len(fn_arg)
        IN IF n >= 2
           THEN /\ fn_ret.tag = "Value"
                /\ fn_ret.answer.retcode = fn_arg[n - 1] * 256 + fn_arg[n]
                /\ fn_ret.answer.data = SubSeq(fn_arg, 1, n - 2)
           ELSE fn_ret.tag = "TransportError"

\* C16: for a command with a payload of at most 255 bytes serialize yields
\* exactly 5 + len bytes, cla, ins, p1, p2, len and the payload, so that
\* reading the fixed offsets back recovers the four fields and a payload of
\* len bytes equal to the original one.
C16_SerializeRoundTrip ==
    (fn = "serialize" /\ Len(fn_arg.data) <= 255) =>
        /\ Len(fn_ret) = 5 + Len(fn_arg.data)
        /\ fn_ret[1] = fn_arg.cla
        /\ fn_ret[2] = fn_arg.ins
        /\ fn_ret[3] = fn_arg.p1
        /\ fn_ret[4] = fn_arg.p2
        /\ fn_ret[5] = Len(fn_arg.data)
        /\ SubSeq(fn_ret, 6, 5 + fn_ret[5]) = fn_arg.data

\* C16 witness: a command with p1 = Last and the largest payload the length
\* byte can count was serialized into 260 bytes
C16_Witness ==
    /\ fn = "serialize"
    /\ fn_arg.p1 = ChunkLast
    /\ Len(fn_arg.data) = 255
    /\ Len(fn_ret) = 260
    /\ fn_ret[5] = 255


\* C17: a message of exactly 250 * 255 bytes is cut into exactly 255 pieces
\* and passes the checks made before the first exchange, so that the start
\* command is exchanged; a message one byte longer is cut into 256 pieces and
\* send_chunks fails with InvalidMessageSize before any exchange.
C17_ChunkLimit ==
    calls >= 1 =>
        /\ (/\ Len(message) = USER_MESSAGE_CHUNK_SIZE * 255
            /\ start_command.p1 = ChunkInit) =>
              /\ sc_pc = "init" => Len(MessageChunks(message)) = 255
              /\ sc_result.tag \notin {"InvalidMessageSize", "InvalidEmptyMessage",
                                       "InvalidChunkPayloadType"}
              /\ \/ sc_pc = "init" /\ exch_log = <<>>
                 \/ Len(exch_log) >= 1 /\ exch_log[1].cmd = start_command
        /\ Len(message) = USER_MESSAGE_CHUNK_SIZE * 255 + 1 =>
              /\ Len(MessageChunks(message)) = 256
              /\ sc_pc = "failed"
              /\ sc_result = InvalidMessageSize
              /\ exch_log = <<>>

\* C17 witness: the start command of a message of 250 * 255 bytes was
\* exchanged
C17_Witness ==
    /\ Len(message) = USER_MESSAGE_CHUNK_SIZE * 255
    /\ Len(exch_log) = 1
    /\ exch_log[1].cmd = start_command


\* C18: send_chunks called with an empty message fails with
\* InvalidEmptyMessage and makes no exchange, whatever the start command is.
C18_EmptyMessage ==
    (calls >= 1 /\ message = <<>>) =>
        /\ sc_pc = "failed"
        /\ sc_result = InvalidEmptyMessage
        /\ exch_log = <<>>

\* C18 witness: an empty message was refused although the start command did
\* not carry the Init payload type either
C18_Witness ==
    /\ calls >= 1
    /\ message = <<>>
    /\ start_command.p1 = ChunkAdd
    /\ sc_result = InvalidEmptyMessage

\* the errors of a wrong use of send_chunks
UsageErrors == {InvalidEmptyMessage, InvalidMessageSize, InvalidChunkPayloadType}

\* a call with a start command that does not carry the Init payload type has
\* failed with the error Expected(message) before any exchange, and so has
\* every call that failed with an error of wrong use
NotInitRefused(Expected(_)) ==
    calls >= 1 =>
        /\ start_command.p1 # ChunkInit =>
              /\ sc_pc = "failed"
              /\ sc_result = Expected(message)
              /\ exch_log = <<>>
        /\ sc_result \in UsageErrors => sc_pc = "failed" /\ exch_log = <<>>

AlwaysChunkType(msg) == InvalidChunkPayloadType

FirstFailedCheck(msg) ==
    IF Len(msg) = 0 THEN InvalidEmptyMessage
    ELSE IF NPieces(Len(msg)) > 255 THEN InvalidMessageSize
    ELSE InvalidChunkPayloadType

\* C19 as stated: send_chunks called with a start command whose p1 is not
\* Init fails with InvalidChunkPayloadType; this error, InvalidEmptyMessage
\* and InvalidMessageSize are raised before any exchange.
C19_AsStated == NotInitRefused(AlwaysChunkType)

\* C19, amended: send_chunks called with a start command whose p1 is not Init
\* fails before any exchange, with InvalidChunkPayloadType when the message
\* has 1 to 255 pieces, with InvalidEmptyMessage when it is empty and with
\* InvalidMessageSize when it has more than 255 pieces (these two checks
\* come first); all three errors are raised before any exchange.
C19_NotInit == NotInitRefused(FirstFailedCheck)

\* C19 witness: a one-byte message was refused for the payload type of its
\* start command
C19_Witness ==
    /\ calls >= 1
    /\ Len(message) = 1
    /\ start_command.p1 = ChunkAdd
    /\ sc_pc = "failed"
    /\ sc_result = InvalidChunkPayloadType
    /\ exch_log = <<>>

\* C20: when, for a message of at least 3 pieces, the exchange of the third
\* piece is answered with status word 0x6985, send_chunks ends with that
\* exchange: no further piece is sent, and it returns the application error
\* with code 0x6985 and the description "... Conditions of use not satisfied".
C20_AbortOnThirdPiece ==
    (/\ NPieces(Len(message)) >= 3
     /\ Len(exch_log) >= 4
     /\ exch_log[4].out.ok
     /\ exch_log[4].out.answer.retcode = 27013) =>
        /\ Len(exch_log) = 4
        /\ exch_log[4].cmd.data =
              SubSeq(message, 2 * USER_MESSAGE_CHUNK_SIZE + 1,
                     Min(3 * USER_MESSAGE_CHUNK_SIZE, Len(message)))
        /\ sc_pc = "failed"
        /\ sc_result.tag = "AppSpecific"
        /\ sc_result.code = 27013
        /\ sc_result.desc =
              "APDU_CODE_CONDITIONS_NOT_SATISFIED - Conditions of use not satisfied"

\* C20 witness: the start command and two pieces were accepted, the third
\* piece was answered with 0x6985
C20_Witness ==
    /\ Len(exch_log) = 4
    /\ \A i \in 1..3 : Succeeded(exch_log[i])
    /\ exch_log[4].out.ok
    /\ exch_log[4].out.answer.retcode = 27013
    /\ sc_pc = "failed"


\* the last read of thread t's exchange returned by timeout
TimedOut(t) ==
    Len(rd_log[t]) >= 1 /\ rd_log[t][Len(rd_log[t])] = <<0, 0>>

\* C21: every exchange eventually returns, given that each device write and
\* read returns: a read that returns by timeout, as when the device stops
\* before the declared length is delivered, ends read_apdu with the
\* communication error "Read error. Incomplete header", so the exchange ends
\* in a failure instead of reading forever.
C21_ExchangeReturns ==
    /\ \A t \in Threads : (pc[t] \in {"lock", "write", "read"}) ~> (pc[t] = "idle")
    /\ [](\A t \in Threads :
            TimedOut(t) =>
                /\ pc[t] = "idle"
                /\ result[t] = Comm("Read error. Incomplete header")
                /\ ~TraitExchange(result[t]).ok)

\* C21 witness: the device declared 130 bytes and stopped after its first
\* packet; the second read timed out and the exchange failed
C21_Witness ==
    /\ Declared = 130
    /\ Len(dev_out) = 1
    /\ rd_log[1] = <<<<1, 64>>, <<0, 0>>>>
    /\ pc[1] = "idle"
    /\ result[1] = Comm("Read error. Incomplete header")


\* thread t is granted device_mutex in this step
Granted(t) == pc[t] = "lock" /\ pc'[t] = "write"

\* C22 as stated: callers are served first come, first served: the guard is
\* never granted to a caller while one that started to wait earlier waits.
C22_AsStated ==
    [][\A t \in Threads : Granted(t) => Head(waitq) = t]_vars

\* C22, amended: concurrent callers are serialized by the guard in no
\* particular order: it is granted only while free, to any one of the callers
\* waiting for it, and a caller waits until it is granted.
C22_Serialized ==
    /\ [][\A t \in Threads :
            Granted(t) =>
                /\ device_mutex = 0 /\ device_mutex' = t
                /\ \E i \in 1..Len(waitq) : waitq[i] = t
                /\ \A u \in Threads \ {t} : ~InFlight(u)]_vars
    /\ [](\A t \in Threads :
            pc[t] = "lock" <=> \E i \in 1..Len(waitq) : waitq[i] = t)

\* C22 witness: thread 2 holds the guard that thread 1 had asked for first,
\* and thread 1 still waits
C22_Witness ==
    /\ overtook
    /\ device_mutex = 2
    /\ waitq = <<1>>



\* the 13 status words the description map names, each with the category
\* its description starts with
StatusCategories ==
    {<<25600, "APDU_CODE_EXECUTION_ERROR">>,
     <<26368, "APDU_CODE_WRONG_LENGTH">>,
     <<27010, "APDU_CODE_EMPTY_BUFFER">>,
     <<27011, "APDU_CODE_OUTPUT_BUFFER_TOO_SMALL">>,
     <<27012, "APDU_CODE_DATA_INVALID">>,
     <<27013, "APDU_CODE_CONDITIONS_NOT_SATISFIED">>,
     <<27014, "APDU_CODE_COMMAND_NOT_ALLOWED">>,
     <<27264, "APDU_CODE_BAD_KEY_HANDLE">>,
     <<27392, "APDU_CODE_INVALIDP1P2">>,
     <<27904, "APDU_CODE_INS_NOT_SUPPORTED">>,
     <<28160, "APDU_CODE_CLA_NOT_SUPPORTED">>,
     <<28416, "APDU_CODE_UNKNOWN">>,
     <<28417, "APDU_CODE_SIGN_VERIFY_ERROR">>}
\* the descriptions of the source text, by the category they start with
CategoryDescription ==
    {<<"APDU_CODE_EXECUTION_ERROR", "APDU_CODE_EXECUTION_ERROR - No information given (NV-Ram not changed)">>,
     <<"APDU_CODE_WRONG_LENGTH", "APDU_CODE_WRONG_LENGTH - Wrong length">>,
     <<"APDU_CODE_EMPTY_BUFFER", "APDU_CODE_EMPTY_BUFFER">>,
     <<"APDU_CODE_OUTPUT_BUFFER_TOO_SMALL", "APDU_CODE_OUTPUT_BUFFER_TOO_SMALL - ">>,
     <<"APDU_CODE_DATA_INVALID", "APDU_CODE_DATA_INVALID - data reversibly blocked (invalidated)">>,
     <<"APDU_CODE_CONDITIONS_NOT_SATISFIED", "APDU_CODE_CONDITIONS_NOT_SATISFIED - Conditions of use not satisfied">>,
     <<"APDU_CODE_COMMAND_NOT_ALLOWED", "APDU_CODE_COMMAND_NOT_ALLOWED - Command not allowed (no current EF)">>,
     <<"APDU_CODE_BAD_KEY_HANDLE", "APDU_CODE_BAD_KEY_HANDLE - The parameters in the data field are incorrect">>,
     <<"APDU_CODE_INVALIDP1P2", "APDU_CODE_INVALIDP1P2 - Wrong parameter(s) P1-P2">>,
     <<"APDU_CODE_INS_NOT_SUPPORTED", "APDU_CODE_INS_NOT_SUPPORTED - Instruction code not supported or invalid">>,
     <<"APDU_CODE_CLA_NOT_SUPPORTED", "APDU_CODE_CLA_NOT_SUPPORTED - Class not supported">>,
     <<"APDU_CODE_UNKNOWN", "APDU_CODE_UNKNOWN - ">>,
     <<"APDU_CODE_SIGN_VERIFY_ERROR", "APDU_CODE_SIGN_VERIFY_ERROR - ">>}
NamedStatusWords == {e[1] : e \in StatusCategories}
CategoryOf(retcode) == (CHOOSE e \in StatusCategories : e[1] = retcode)[2]
DescriptionOf(cat) == (CHOOSE e \in CategoryDescription : e[1] = cat)[2]

\* C25: the description map is a total, fixed function on 16-bit status
\* words: a call with any status word returns a description; each of the 13
\* named status words gets the description of its own category, which no
\* other status word gets, and every other status word gets the one fallback
\* description "[APDU_ERROR] Unknown".
C25_DescriptionMap ==
    fn = "map_apdu_error_description" =>
        /\ fn_arg \in 0..65535
        /\ fn_ret = map_apdu_error_description(fn_arg)
        /\ IF fn_arg \in NamedStatusWords
           THEN /\ fn_ret = DescriptionOf(CategoryOf(fn_arg))
                /\ fn_ret # "[APDU_ERROR] Unknown"
                /\ \A other \in NamedStatusWords \ {fn_arg} :
                        map_apdu_error_description(other) # fn_ret
           ELSE fn_ret = "[APDU_ERROR] Unknown"

\* the map was asked for 0x6F01 and answered with the sign/verify description
C25_Witness ==
    /\ fn = "map_apdu_error_description"
    /\ fn_arg = 28417
    /\ fn_ret = "APDU_CODE_SIGN_VERIFY_ERROR - "


\* the exchange of the operation called last was answered by the device
Answered == op_out.tag = "Ok"

\* C23: when the device answers the exchange of get_app_name or
\* get_num_slots with a status word other than 0x9000, the operation returns
\* the application error that carries that status word and its description.
C23_StatusWordSurfaced ==
    (op \in {"get_app_name", "get_num_slots"} /\ Answered
        /\ op_out.retcode # SW_OK)
    => op_result = AppSpecific(op_out.retcode,
                               map_apdu_error_description(op_out.retcode))

\* the kinds of value that are errors of the taxonomy
ErrorTags == {"TransportError", "Utf8", "AppSpecific", "InvalidEmptyMessage",
              "InvalidMessageSize", "InvalidChunkPayloadType"}

\* C24: an operation whose transport could not be made or whose exchange
\* failed returns an error value to its caller: it neither returns success
\* nor panics.
C24_FailureReturned ==
    (op # "none" /\ ~Answered) => op_result.tag \in ErrorTags

\* C26: the success status word 0x9000 is never passed to the status
\* description map.
C26_SuccessNotMapped ==
    \A i \in 1..Len(mapped) : mapped[i] # SW_OK


\* the enumerated devices that pass both filters
Matching ==
    {i \in 1..Len(devices) : /\ devices[i].vendor_id = LEDGER_VID
                             /\ devices[i].usage_page = LEDGER_USAGE_PAGE}

\* C27: the discovery returns the first enumerated device whose vendor id is
\* 0x2c97 and whose usage page is 0xFFA0, whatever devices precede it, and
\* the device-not-found error when no enumerated device passes both filters.
C27_FirstMatching ==
    \A t \in Threads :
        device_path[t] # NoPath =>
            device_path[t] =
                IF Matching = {} THEN PathRes("DeviceNotFound", 0)
                ELSE PathRes("Ok", CHOOSE i \in Matching :
                                        \A j \in Matching : i <= j)

\* the contexts that are alive
Alive == {c \in 1..n_ctx : strong[c] > 0}

\* C28: at most one shared API context is alive at any time, every live
\* Device Handle and every call in progress references the live one, and a
\* context is made only when none is alive.
C28_OneContext ==
    /\ [](/\ Cardinality(Alive) <= 1
          /\ \A h \in LiveHandles : handles[h].ctx \in Alive
          /\ \A t \in Threads : local_api[t] # 0 => local_api[t] \in Alive)
    /\ [][n_ctx' # n_ctx => Alive = {}]_vars

\* a second context was made after the first was released, and two handles
\* share it
C28_Witness ==
    /\ n_ctx = 2
    /\ LiveHandles = {1, 2}
    /\ handles[1].ctx = 2
    /\ handles[2].ctx = 2

\* how many handles and calls in progress reference context c
Referencing(c) ==
    Cardinality({h \in LiveHandles : handles[h].ctx = c})
        + Cardinality({t \in Threads : local_api[t] = c})

\* C29: the registry's back-reference owns nothing: a context is alive
\* exactly while a Device Handle or a call in progress references it, so it is
\* released with the last of them, also when new() fails before it made a
\* handle; a request that finds no live context then makes a fresh one.
C29_NonOwning ==
    /\ [](\A c \in 1..MaxCtx : strong[c] = Referencing(c))
    /\ [][\A t \in Threads :
            (reg_pc[t] = "locked" /\ reg_pc'[t] = "api" /\ Alive = {})
            => /\ n_ctx' = n_ctx + 1
               /\ local_api'[t] = n_ctx'
               /\ weak_api' = n_ctx'
               /\ Alive' = {n_ctx'}]_vars

\* new() of thread 1 failed in the discovery, which released the context it
\* had made, and the request of thread 2 made a fresh one
C29_Witness ==
    /\ reg_op[1] = "new"
    /\ reg_result[1].tag = "DeviceNotFound"
    /\ strong[1] = 0
    /\ LiveHandles = {}
    /\ n_ctx = 2
    /\ local_api[2] = 2
    /\ weak_api = 2

\* C30: after close() the Device Handle holds neither its open device nor
\* its reference to the shared API context.
C30_CloseReleases ==
    \A h \in closed : handles[h] = NoHandle


\* C33: for a command whose payload has more than 255 bytes serialize returns
\* 5 + L bytes, the header followed by all L payload bytes, and the length
\* byte is L mod 256.
C33_LengthTruncated ==
    (fn = "serialize" /\ Len(fn_arg.data) > 255) =>
        /\ Len(fn_ret) = 5 + Len(fn_arg.data)
        /\ SubSeq(fn_ret, 6, Len(fn_ret)) = fn_arg.data
        /\ fn_ret[5] = Len(fn_arg.data) % 256
        /\ fn_ret[5] < Len(fn_arg.data)

\* a command with 257 payload bytes was serialized into 262 bytes that
\* declare a length of 1
C33_Witness ==
    /\ fn = "serialize"
    /\ Len(fn_arg.data) = 257
    /\ Len(fn_ret) = 262
    /\ fn_ret[5] = 1


\* the item walk as the description of the format gives it: the offset and
\* the data length of the first item of desc, from offset i on, whose header
\* masked with 0xFC is 0x04; <<-1, 0>> when there is none
RECURSIVE FirstUsagePage(_, _)
FirstUsagePage(desc, i) ==
    IF i >= Len(desc) THEN <<-1, 0>>
    ELSE LET key == DescByte(desc, i)
             len == IF key \div 16 = 15
                    THEN IF i + 1 < Len(desc) THEN DescByte(desc, i + 1) ELSE 0
                    ELSE IF key % 4 = 3 THEN 4 ELSE key % 4
             hdr == IF key \div 16 = 15 THEN 3 ELSE 1
         IN IF key - (key % 4) = 4 THEN <<i, len>>
            ELSE FirstUsagePage(desc, i + hdr + len)

\* C31: when the first usage page item of the descriptor has 1 or 2 data
\* bytes, all inside the descriptor, the parse returns its value (the data
\* byte, or the 2 data bytes little-endian), whatever items precede it.
C31_FirstUsagePage ==
    LET first == FirstUsagePage(up_desc, 0)
        at == first[1]
    IN (up_pc = "done" /\ at >= 0 /\ first[2] \in {1, 2}
            /\ at + first[2] < Len(up_desc))
       => up_result = UpRes("Ok",
                IF first[2] = 1 THEN DescByte(up_desc, at + 1)
                ELSE DescByte(up_desc, at + 2) * 256 + DescByte(up_desc, at + 1))

\* C40: the parse loop moves its index forward in every iteration, reads no
\* byte at or past the end of the descriptor, and so ends without a panic.
C40_ParseInBounds ==
    /\ up_prev < up_i \/ (up_pc = "done" /\ up_prev = up_i)
    /\ up_read < Len(up_desc)
    /\ up_result.tag # "Panic"


\* the length declared by the packet thread t read first
FirstDeclared(t) ==
    LET p == dev_out[rd_log[t][1][1]] IN p[6] * 256 + p[7]
\* what n packets can contribute at most
AtMost(n) == IF n = 0 THEN 0 ELSE 57 + 59 * (n - 1)

\* C36: while read_apdu runs on its empty buffer, the expected length is the
\* one packet 0 declared and later packets leave it alone, the accumulated
\* length stays below it, grows by at most 57 with packet 0 and by at most 59
\* with a later packet; on success the buffer holds exactly the declared
\* length and no packet was read that was not needed to reach it.
C36_Accumulated ==
    /\ [](\A t \in Threads :
            /\ (pc[t] = "read" /\ rd_log[t] # <<>>) =>
                    /\ expected_apdu_len[t] = FirstDeclared(t)
                    /\ Len(apdu_answer[t]) < expected_apdu_len[t]
                    /\ Len(apdu_answer[t]) <= AtMost(Len(rd_log[t]))
            /\ (pc[t] = "read" /\ rd_log[t] = <<>>) => apdu_answer[t] = <<>>
            /\ (pc[t] = "idle" /\ result[t].tag = "Ok") =>
                    /\ Len(apdu_answer[t]) = FirstDeclared(t)
                    /\ Len(apdu_answer[t]) <= AtMost(Len(rd_log[t]))
                    /\ Len(apdu_answer[t]) > AtMost(Len(rd_log[t]) - 1))
    /\ [][\A t \in Threads :
            (pc[t] = "read" /\ Len(rd_log'[t]) = Len(rd_log[t]) + 1
                /\ (pc'[t] = "read" \/ result'[t].tag = "Ok")) =>
                /\ Len(apdu_answer'[t]) - Len(apdu_answer[t])
                        <= (IF rd_log[t] = <<>> THEN 57 ELSE 59)
                /\ Len(apdu_answer'[t]) >= Len(apdu_answer[t])
                /\ (rd_log[t] # <<>> /\ pc'[t] = "read") =>
                        expected_apdu_len'[t] = expected_apdu_len[t]]_vars

\* an answer of 58 bytes was read from two packets, the second of which
\* contributed the last byte
C36_Witness ==
    /\ Declared = 58
    /\ rd_log[1] = <<<<1, 64>>, <<2, 64>>>>
    /\ pc[1] = "idle"
    /\ result[1].tag = "Ok"
    /\ Len(apdu_answer[1]) = 58


\* thread t holds the guard of the Device Handle
Holds(t) == device_mutex = t

BetweenSubExchanges ==
    /\ sc_pc \in {"init", "pieces"}
    /\ pc[1] \in {"idle", "lock"}

\* C38: the guard is held per sub-exchange: whenever the transfer of thread 1
\* is between two sub-exchanges thread 1 does not hold the guard, and what
\* holds it then, if anything, is an exchange of the other caller; thread 1
\* holds it only while a sub-exchange writes or reads.
C38_GuardPerSubExchange ==
    /\ BetweenSubExchanges => ~Holds(1)
    /\ Holds(1) => pc[1] \in {"write", "read"}
    /\ (BetweenSubExchanges /\ pc[1] = "lock" /\ ~Holds(2)) => ENABLED Lock(1)
    /\ (BetweenSubExchanges /\ pc[2] = "lock" /\ device_mutex = 0) => ENABLED Lock(2)

\* the Init sub-command of a two-piece transfer was answered with 0x9000, no
\* piece was sent yet, and thread 1 waits with its first piece for the guard
\* while the device answers an exchange of thread 2
C38_Witness ==
    /\ sc_pc = "pieces"
    /\ Len(exch_log) = 1
    /\ exch_log[1].cmd.p1 = ChunkInit
    /\ exch_log[1].out.answer.retcode = SW_OK
    /\ packet_idx = 0
    /\ pc[1] = "lock"
    /\ Holds(2)
    /\ pc[2] = "read"
    /\ xn[2] = 1


\* the locks thread t holds
HoldsWrapper(t) == wrapper_lock = t
ApiHeld(t) == {c \in 1..MaxCtx : api_lock[c] = t}
GuardsHeld(t) == {h \in 1..MaxHandles : dev_guard[h] = t}
\* thread t is in a call and can take its next step
CanStep(t) ==
    CASE reg_pc[t] = "locked" -> ENABLED RegGet(t)
      [] reg_pc[t] = "api" -> ENABLED RegApiLock(t)
      [] reg_pc[t] = "got" -> ENABLED RegList(t) \/ ENABLED RegFind(t)
      [] reg_pc[t] = "found" -> ENABLED RegOpen(t)
      [] reg_pc[t] = "xlock" -> ENABLED XLock(t)
      [] reg_pc[t] = "xio" -> ENABLED XReturn(t)
      [] OTHER -> FALSE

\* C39: the Mutex of a context is taken and held only under the lock of the
\* registry, a thread in exchange() holds the guard of its handle and no other
\* lock, the guards of the handles and the locks of registry and context
\* change in different steps, and no deadlock is reachable: a thread that
\* holds a lock is in a call, and a thread in a call can take its next step
\* unless it waits for a guard, whose holder then can.
C39_NoDeadlock ==
    /\ [](\A t \in Threads :
            /\ ApiHeld(t) # {} => HoldsWrapper(t) /\ ApiHeld(t) = {local_api[t]}
            /\ reg_pc[t] = "api" => HoldsWrapper(t) /\ ApiHeld(t) = {}
            /\ HoldsWrapper(t) <=> reg_pc[t] \in {"locked", "api", "got", "found"}
            /\ GuardsHeld(t) # {} =>
                    /\ reg_pc[t] = "xio"
                    /\ GuardsHeld(t) = {xh[t]}
            /\ reg_pc[t] \in {"xlock", "xio"} =>
                    ~HoldsWrapper(t) /\ ApiHeld(t) = {}
            /\ reg_pc[t] # "idle" =>
                    \/ CanStep(t)
                    \/ /\ reg_pc[t] = "xlock"
                       /\ dev_guard[xh[t]] \in Threads \ {t}
                       /\ CanStep(dev_guard[xh[t]]))
    /\ [][/\ dev_guard' # dev_guard =>
                api_lock' = api_lock /\ wrapper_lock' = wrapper_lock
          /\ \A c \in 1..MaxCtx :
                (api_lock[c] = 0 /\ api_lock'[c] # 0) =>
                    /\ wrapper_lock = api_lock'[c]
                    /\ wrapper_lock' = wrapper_lock
                    /\ dev_guard' = dev_guard]_vars

\* thread 1 is in new() with the locks of the registry and of the context,
\* while thread 2 holds the guard of a handle of that context in exchange()
C39_Witness ==
    /\ reg_op[1] = "new"
    /\ reg_pc[1] = "found"
    /\ HoldsWrapper(1)
    /\ ApiHeld(1) = {local_api[1]}
    /\ reg_pc[2] = "xio"
    /\ GuardsHeld(2) = {xh[2]}
    /\ handles[xh[2]].ctx = local_api[1]


\* ------------------------------------------------------- PSGT key-value maps
\* raw::Key and raw::Pair, raw.rs 29-46; keys and values are kept short
PsKey(tv, k) == [type_value |-> tv, key |-> k]
PsKeys == {PsKey(tv, k) : tv \in 0..1, k \in {<<>>, <<1>>}}
PsValues == {<<>>, <<2>>}
PsPair(k, v) == [key |-> k, value |-> v]
PsPairs == {PsPair(k, v) : k \in PsKeys, v \in PsValues}
PSGT_OUTPUT_FEATURES == 0

PsRes(tag, k) == [tag |-> tag, key |-> k]
PsNoKey == PsKey(0, <<>>)

\* Global::insert_pair, global.rs 48-66: the entry of the key is vacant and
\* takes the value, or occupied and the call fails with the key
GlobalInsert(map, pair) ==
    IF \E p \in map : p.key = pair.key
    THEN [res |-> PsRes("DuplicateKey", pair.key), map |-> map]
    ELSE [res |-> PsRes("Ok", PsNoKey), map |-> map \cup {pair}]

\* impl_psgt_insert_pair for a field without key data, macros.rs 19-30;
\* ok tells whether Deserialize::deserialize of the value succeeds
UnkeyedInsert(field, pair, ok) ==
    IF pair.key.key = <<>>
    THEN IF field = "None"
         THEN IF ok
              THEN [res |-> PsRes("Ok", PsNoKey), field |-> pair.value]
              ELSE [res |-> PsRes("ParseFailed", PsNoKey), field |-> field]
         ELSE [res |-> PsRes("DuplicateKey", pair.key), field |-> field]
    ELSE [res |-> PsRes("InvalidKey", pair.key), field |-> field]

\* insert_pair(pair) is called on the Global map or on an Input map; Input
\* matches the type PSGT_OUTPUT_FEATURES only (input.rs 52-63)
InsertCall(m, pair) ==
    /\ ps_pc = "idle"
    /\ m = "Input" => pair.key.type_value = PSGT_OUTPUT_FEATURES
    /\ ps_pc' = "insert"
    /\ ps_map' = m
    /\ ps_arg' = pair
    /\ ps_result' = PsRes("None", PsNoKey)
    /\ UNCHANGED <<unknown, features, ps_stream, ps_pos>>
    /\ UNCHANGED <<hidvars, scvars, fnvars, opsvars, regvars, upvars, lockvars,
                   asyncvars>>

\* the body of insert_pair
InsertPair ==
    /\ ps_pc = "insert"
    /\ IF ps_map = "Global"
       THEN LET r == GlobalInsert(unknown, ps_arg) IN
            /\ unknown' = r.map
            /\ ps_result' = r.res
            /\ UNCHANGED features
       ELSE \E ok \in BOOLEAN :
            LET r == UnkeyedInsert(features, ps_arg, ok) IN
            /\ features' = r.field
            /\ ps_result' = r.res
            /\ UNCHANGED unknown
    /\ ps_pc' = "idle"
    /\ UNCHANGED <<ps_map, ps_arg, ps_stream, ps_pos>>
    /\ UNCHANGED <<hidvars, scvars, fnvars, opsvars, regvars, upvars, lockvars,
                   asyncvars>>

\* Encodable for Key and Pair, raw.rs 86-106: a VarInt of the key length plus
\* one, the type, the key bytes, then the value with its length; a VarInt
\* below 0xFD is one byte (encode.rs 244-303)
EncodeKey(k) == <<Len(k.key) + 1, k.type_value>> \o k.key
EncodePair(p) == EncodeKey(p.key) \o <<Len(p.value)>> \o p.value
RECURSIVE EncodePairs(_)
EncodePairs(ps) ==
    IF ps = <<>> THEN <<>> ELSE EncodePair(Head(ps)) \o EncodePairs(Tail(ps))

PairSeqs == UNION {[1..n -> PsPairs] : n \in 0..MaxPairs}
\* the maps of a stream end with the separator 0x00, or the stream is cut
PsStreams == {EncodePairs(ps) \o tail : ps \in PairSeqs, tail \in {<<0>>, <<>>}}

\* Decodable for Key, raw.rs 55-84, reading d from position pos
DecodeKey(d, pos) ==
    IF pos > Len(d) THEN [tag |-> "Io", key |-> PsNoKey, next |-> pos]
    ELSE IF d[pos] = 0 THEN [tag |-> "NoMorePairs", key |-> PsNoKey, next |-> pos + 1]
    ELSE LET key_byte_size == d[pos] - 1 IN
         IF pos + 1 + key_byte_size > Len(d)
         THEN [tag |-> "Io", key |-> PsNoKey, next |-> pos]
         ELSE [tag |-> "Ok",
               key |-> PsKey(d[pos + 1], SubSeq(d, pos + 2, pos + 1 + key_byte_size)),
               next |-> pos + 2 + key_byte_size]

\* Decodable for Pair, raw.rs 108-115, with Decodable for Vec<u8>,
\* encode.rs 312-326
DecodePair(d, pos) ==
    LET k == DecodeKey(d, pos) IN
    IF k.tag # "Ok" THEN [tag |-> k.tag, pair |-> PsPair(PsNoKey, <<>>), next |-> k.next]
    ELSE IF k.next > Len(d) \/ k.next + d[k.next] > Len(d)
    THEN [tag |-> "Io", pair |-> PsPair(PsNoKey, <<>>), next |-> k.next]
    ELSE [tag |-> "Ok",
          pair |-> PsPair(k.key, SubSeq(d, k.next + 1, k.next + d[k.next])),
          next |-> k.next + 1 + d[k.next]]

\* Global::decode(d) is called (global.rs 123); it is an associated function
\* and reads no map, and is called here before any insertion
DecodeCall(d) ==
    /\ ps_pc = "idle"
    /\ unknown = {}
    /\ features = "None"
    /\ ps_pc' = "decode"
    /\ ps_stream' = d
    /\ ps_pos' = 1
    /\ ps_result' = PsRes("None", PsNoKey)
    /\ UNCHANGED <<unknown, features, ps_map, ps_arg>>
    /\ UNCHANGED <<hidvars, scvars, fnvars, opsvars, regvars, upvars, lockvars,
                   asyncvars>>

\* one turn of the loop of Global::decode, global.rs 124-128: a pair is
\* decoded and dropped (`Ok(pair) => {}`), insert_pair is not called; the
\* match has no arm for an error, with which the decoding ends here and the
\* reader is dropped
DecodeStep ==
    /\ ps_pc = "decode"
    /\ LET r == DecodePair(ps_stream, ps_pos) IN
       IF r.tag = "Ok"
       THEN /\ ps_pos' = r.next
            /\ UNCHANGED <<ps_pc, ps_result, ps_stream>>
       ELSE /\ ps_result' = PsRes(r.tag, PsNoKey)
            /\ ps_pc' = "idle"
            /\ ps_stream' = <<>>
            /\ ps_pos' = 1
    /\ UNCHANGED <<unknown, features, ps_map, ps_arg>>
    /\ UNCHANGED <<hidvars, scvars, fnvars, opsvars, regvars, upvars, lockvars,
                   asyncvars>>

InitPsgt ==
    /\ HidInitCommon
    /\ pc = [t \in Threads |-> "off"]
    /\ command = [t \in Threads |-> MkCommand(ChunkInit, 0, 0)]
    /\ sc_pc = "off"
    /\ dev_mode = "loopback"
    /\ msg_pool = "short"
    /\ devices = <<>>
    /\ up_desc = <<>>
    /\ up_pc = "off"

PsgtNext ==
    \/ \E m \in {"Global", "Input"}, pair \in PsPairs : InsertCall(m, pair)
    \/ InsertPair
    \/ \E d \in PsStreams : DecodeCall(d)
    \/ DecodeStep

SpecPsgt == InitPsgt /\ [][PsgtNext]_vars

\* the keys of the pairs of a stream, in the order they are read
RECURSIVE StreamKeys(_, _)
StreamKeys(d, pos) ==
    LET r == DecodePair(d, pos) IN
    IF r.tag = "Ok" THEN <<r.pair.key>> \o StreamKeys(d, r.next) ELSE <<>>
RepeatsKey(d) ==
    LET ks == StreamKeys(d, 1) IN
    \E i, j \in 1..Len(ks) : i < j /\ ks[i] = ks[j]

\* C35: a map never holds a key twice; insert_pair with a key that is present
\* fails with DuplicateKey carrying that key and changes no entry of the map,
\* and the decoding of a stream in which a map repeats a key ends with
\* DuplicateKey.
C35_NoDuplicateKeys ==
    /\ [](\A p, q \in unknown : p.key = q.key => p = q)
    /\ [][(ps_pc = "insert" /\ ps_pc' = "idle") =>
            /\ (ps_map = "Global" /\ \E p \in unknown : p.key = ps_arg.key) =>
                    /\ ps_result' = PsRes("DuplicateKey", ps_arg.key)
                    /\ unknown' = unknown
            /\ (ps_map = "Input" /\ features # "None" /\ ps_arg.key.key = <<>>) =>
                    /\ ps_result' = PsRes("DuplicateKey", ps_arg.key)
                    /\ features' = features]_vars
    /\ [][(ps_pc = "decode" /\ ps_pc' = "idle" /\ RepeatsKey(ps_stream)) =>
            ps_result'.tag = "DuplicateKey"]_vars


\* received bytes with the channel and tag bytes blanked
Masked(bytes) == [i \in 1..Len(bytes) |-> IF i <= 3 THEN 0 ELSE bytes[i]]
\* the reads of threads t and u returned the same sizes and stored the same
\* bytes, bytes 0..2 apart
SameButHeader(t, u) ==
    /\ Len(rd_log[t]) = Len(rd_log[u])
    /\ \A i \in 1..Len(rd_log[t]) :
            /\ rd_log[t][i][2] = rd_log[u][i][2]
            /\ Masked(rcv[t][i]) = Masked(rcv[u][i])

\* C32: two runs of read_apdu whose received packets differ in nothing but
\* the channel and tag bytes are at the same point with the same accumulated
\* bytes, and return the same result.
C32_HeaderIndependent ==
    \A t, u \in Threads :
        (rd_log[t] # <<>> /\ SameButHeader(t, u)) =>
            /\ (pc[t] = "idle") = (pc[u] = "idle")
            /\ apdu_answer[t] = apdu_answer[u]
            /\ result[t] = result[u]

\* both callers have read a two-packet answer to its end, the packets of one
\* with other channel and tag bytes than those of the other
C32_Witness ==
    /\ pc[1] = "idle" /\ pc[2] = "idle"
    /\ Len(rcv[1]) = 2
    /\ SameButHeader(1, 2)
    /\ rcv[1][1] # rcv[2][1]
    /\ rcv[1][2] # rcv[2][2]
    /\ result[1].tag = "Ok"
    /\ Len(result[1].data) = 56


\* C34: while the write and the read of an exchange awaited through the
\* asynchronous entry point are in progress, the scheduler thread can poll
\* its other task.
C34_SchedulerNotStalled ==
    (pc[1] \in {"write", "read"} /\ ticks < MaxTicks) => ENABLED PollOther

====
